---- MODULE Spec2Model ----
(***************************************************************************)
(* Vault Runner: the interpreter of the robot language (VaultInterpreter,  *)
(* ExtendedVaultInterpreter) and the robot/world state machine             *)
(* (VaultRunner), as a state machine.  One action is one iteration of the  *)
(* while loop of VaultInterpreter.run: the budget test, the count, the     *)
(* dispatch of the token at pc, pc += 1 and check_escape; or one call of   *)
(* the step executor of the GUI, which dispatches the same way.            *)
(***************************************************************************)
EXTENDS Integers, Sequences, FiniteSets, TLC

VARIABLES
    program,            \* program_lines: the source lines the interpreter is given
    tokens,             \* self.tokens: the token sequence, built at construction
    extended,           \* ExtendedVaultInterpreter with enable_extensions
    max_instructions,   \* self.max_instructions
    pc,                 \* self.pc, 0-based as in the source
    call_stack,         \* self.call_stack: frames (type, start_pc, end_pc, data)
    flag,               \* self.flag
    instruction_count,  \* self.instruction_count
    execution_history,  \* self.execution_history: one step_info per dispatch
    wait_counter,       \* ExtendedVaultInterpreter.wait_counter
    marks,              \* ExtendedVaultInterpreter.marks, in insertion order
    saved_states,       \* ExtendedVaultInterpreter.saved_states
    runner,             \* the VaultRunner: x, y, direction, has_key, ...
    status,             \* where the caller of run() stands
    error,              \* the kind of exception run() raised, "" if none
    start_pos,          \* the start_pos the VaultRunner was constructed with
    start_dir,          \* the start_dir the VaultRunner was constructed with
    ret,                \* what the last move_forward/pick_key/open_door call returned
    result,             \* what run() returned
    earlier             \* how the earlier run() calls on this interpreter ended

vars == << program, tokens, extended, max_instructions, pc, call_stack, flag,
           instruction_count, execution_history, wait_counter, marks,
           saved_states, runner, start_pos, start_dir, status, error, ret,
           result, earlier >>

-----------------------------------------------------------------------------
(* Bounds of the model *)

MaxN == 3               \* largest LOOP / WAIT operand of the generated programs
MaxK == 3               \* longest corridor
MaxProgLen == 2         \* longest program made of arbitrary tokens
LowBudget == 4          \* the smaller of the two budgets tried
MaxInstructions == 12   \* the larger of the two budgets tried
MaxRuns == 2            \* run() calls on one interpreter

-----------------------------------------------------------------------------
(* Tokens.  A keyword is its upper-case string, an integer literal an int; *)
(* both are records so that a token can be compared with any other.        *)

Tok(s) == [v |-> s, n |-> 0]
Num(n) == [v |-> "INT", n |-> n]

valid_keywords ==
    { "MOVE", "LEFT", "RIGHT", "RTURN", "PICK", "OPEN",
      "LOOP", "END", "IF", "WHILE",
      "FRONT", "KEY", "DOOR", "EXIT",
      "SET", "CLR" }

extended_keywords ==
    { "WAIT", "MARK", "GOTO", "SCAN", "COUNT", "SAVE", "LOAD",
      "NORTH", "SOUTH", "EAST", "WEST", "ALL", "ITEMS" }

ExtendedCommands == { "WAIT", "MARK", "GOTO", "SCAN", "COUNT", "SAVE", "LOAD" }

Sensors == { "FRONT", "KEY", "DOOR", "EXIT" }

Openers == { "LOOP", "IF", "WHILE" }

\* self.tokens[i] for a 0-based i
TokenAt(toks, i) == toks[i + 1]

-----------------------------------------------------------------------------
(* Tokenizer.  A source line is a string; the string methods the tokenizer *)
(* calls are computed character by character.                              *)

MaxDistinctTokens == 20

\* s[i - 1] of the source, a one-character string
Char(s, i) == SubSeq(s, i, i)

\* the whitespace str.strip() and str.split() take off
whitespace == { " ", "\t" }

ascii_lowercase == "abcdefghijklmnopqrstuvwxyz"

ascii_uppercase == "ABCDEFGHIJKLMNOPQRSTUVWXYZ"

decimal_digits == "0123456789"

\* U+00B2 SUPERSCRIPT TWO, a character str.isdigit() accepts and int() does
\* not; the sources of this model write it ^
superscript_two == "^"

upper_of ==
    [ c \in { Char(ascii_lowercase, i) : i \in 1..26 } |->
        Char(ascii_uppercase, CHOOSE i \in 1..26 : Char(ascii_lowercase, i) = c) ]

\* str.upper()
RECURSIVE upper(_)
upper(s) ==
    IF s = "" THEN ""
    ELSE (IF Char(s, 1) \in DOMAIN upper_of THEN upper_of[Char(s, 1)] ELSE Char(s, 1))
         \o upper(SubSeq(s, 2, Len(s)))

RECURSIVE lstrip(_)
lstrip(s) ==
    IF s # "" /\ Char(s, 1) \in whitespace THEN lstrip(SubSeq(s, 2, Len(s))) ELSE s

RECURSIVE rstrip(_)
rstrip(s) ==
    IF s # "" /\ Char(s, Len(s)) \in whitespace
    THEN rstrip(SubSeq(s, 1, Len(s) - 1))
    ELSE s

\* str.strip()
strip(s) == rstrip(lstrip(s))

\* '#' in line
has_comment(s) == \E i \in 1..Len(s) : Char(s, i) = "#"

\* line.split('#')[0]
RECURSIVE before_comment(_)
before_comment(s) ==
    IF s = "" \/ Char(s, 1) = "#" THEN ""
    ELSE Char(s, 1) \o before_comment(SubSeq(s, 2, Len(s)))

\* the length of the run of non-whitespace characters s starts with
RECURSIVE part_length(_)
part_length(s) ==
    IF s = "" \/ Char(s, 1) \in whitespace THEN 0
    ELSE 1 + part_length(SubSeq(s, 2, Len(s)))

\* str.split()
RECURSIVE split(_)
split(s) ==
    LET t == lstrip(s)
    IN  IF t = "" THEN << >>
        ELSE << SubSeq(t, 1, part_length(t)) >>
             \o split(SubSeq(t, part_length(t) + 1, Len(t)))

is_decimal(c) == \E i \in 1..10 : Char(decimal_digits, i) = c

\* str.isdigit()
isdigit(part) ==
    /\ part # ""
    /\ \A i \in 1..Len(part) :
          is_decimal(Char(part, i)) \/ Char(part, i) = superscript_two

\* int() accepts the part
int_accepts(part) == \A i \in 1..Len(part) : is_decimal(Char(part, i))

\* int(part) of a part int() accepts
RECURSIVE int(_)
int(part) ==
    IF part = "" THEN 0
    ELSE 10 * int(SubSeq(part, 1, Len(part) - 1))
         + (CHOOSE d \in 0..9 : Char(decimal_digits, d + 1) = Char(part, Len(part)))

\* for part in parts: the tokens so far and the exception raised, "" if none
RECURSIVE tokenize_parts(_, _, _)
tokenize_parts(parts, keywords, acc) ==
    IF parts = << >> THEN acc
    ELSE LET part == Head(parts)
         IN  IF part \in keywords
             THEN tokenize_parts(Tail(parts), keywords,
                                 [acc EXCEPT !.tokens = Append(@, Tok(part))])
             ELSE IF isdigit(part)
             THEN IF int_accepts(part)
                  THEN tokenize_parts(Tail(parts), keywords,
                                      [acc EXCEPT !.tokens = Append(@, Num(int(part)))])
                  ELSE [acc EXCEPT !.error = "ValueError"]
             ELSE [acc EXCEPT !.error = "SyntaxError"]

\* for line in self.program
RECURSIVE tokenize_lines(_, _, _, _)
tokenize_lines(lines, keywords, comments, acc) ==
    IF lines = << >> \/ acc.error # "" THEN acc
    ELSE LET stripped == strip(Head(lines))
             line == IF comments /\ has_comment(stripped)
                     THEN strip(before_comment(stripped))
                     ELSE stripped
         IN  tokenize_lines(Tail(lines), keywords, comments,
                            IF line = "" THEN acc
                            ELSE tokenize_parts(split(line), keywords, acc))

\* self.program: the non-blank lines, stripped and upper-cased
self_program(program_lines) ==
    LET kept == SelectSeq(program_lines, LAMBDA line : strip(line) # "")
    IN  [ i \in 1..Len(kept) |-> upper(strip(kept[i])) ]

\* the distinct non-integer tokens
distinct_tokens(toks) ==
    { toks[i].v : i \in { j \in 1..Len(toks) : toks[j].v # "INT" } }

get_distinct_token_count(toks) == Cardinality(distinct_tokens(toks))

\* mutant: the distinct-token limit is not enforced
check_limit_NoLimit(r) == r

\* the distinct-token validation that ends both tokenizers
check_limit(r) ==
    IF r.error = "" /\ get_distinct_token_count(r.tokens) > MaxDistinctTokens
    THEN [r EXCEPT !.error = "SyntaxError"]
    ELSE r

\* mutant: the lines are not upper-cased
tokenize_CaseSensitive(program_lines) ==
    check_limit(tokenize_lines(SelectSeq(program_lines, LAMBDA line : strip(line) # ""),
                               valid_keywords, TRUE,
                               [tokens |-> << >>, error |-> ""]))

\* VaultInterpreter._tokenize
tokenize(program_lines) ==
    check_limit(tokenize_lines(self_program(program_lines), valid_keywords, TRUE,
                               [tokens |-> << >>, error |-> ""]))

\* ExtendedVaultInterpreter._tokenize with enable_extensions: no comments
extended_tokenize(program_lines) ==
    check_limit(tokenize_lines(self_program(program_lines),
                               valid_keywords \cup extended_keywords, FALSE,
                               [tokens |-> << >>, error |-> ""]))

-----------------------------------------------------------------------------
(* Control-flow resolver *)

RECURSIVE ScanForEnd(_, _, _)
ScanForEnd(toks, p, level) ==
    IF p < Len(toks) /\ level > 0
    THEN LET t == TokenAt(toks, p)
         IN  ScanForEnd(toks, p + 1,
                        IF t.v \in Openers THEN level + 1
                        ELSE IF t.v = "END" THEN level - 1
                        ELSE level)
    ELSE [pc |-> p, level |-> level]

\* the index of the matching END, or -1 where the source raises SyntaxError
find_matching_end(toks, start_pc) ==
    LET r == ScanForEnd(toks, start_pc + 1, 1)
    IN  IF r.level # 0 THEN -1 ELSE r.pc - 1

\* analyze_program: depth and max_depth after the tokens from index p on
RECURSIVE ScanDepth(_, _, _, _)
ScanDepth(toks, p, depth, max_depth) ==
    IF p >= Len(toks) THEN max_depth
    ELSE LET t == TokenAt(toks, p)
         IN  IF t.v \in Openers
             THEN ScanDepth(toks, p + 1, depth + 1,
                            IF depth + 1 > max_depth THEN depth + 1 ELSE max_depth)
             ELSE IF t.v = "END"
             THEN ScanDepth(toks, p + 1, depth - 1, max_depth)
             ELSE ScanDepth(toks, p + 1, depth, max_depth)

\* analyze_program()['max_nesting_depth']
max_nesting_depth(toks) == ScanDepth(toks, 0, 0, 0)

-----------------------------------------------------------------------------
(* VaultRunner *)

directions == << <<0, 1>>, <<1, 0>>, <<0, -1>>, <<-1, 0>> >>   \* N, E, S, W

\* dict.get(pos, default)
Get(w, pos, default) == IF pos \in DOMAIN w THEN w[pos] ELSE default

get_front_position(r) ==
    << r.x + directions[r.direction + 1][1], r.y + directions[r.direction + 1][2] >>

\* mutant: an unmapped cell is taken for floor, as the tile sensors take it
is_front_clear_AbsentIsFloor(r) ==
    Get(r.world, get_front_position(r), "floor") # "wall"

\* mutant: a door that has not been opened blocks the way
is_front_clear_ClosedDoorBlocks(r) ==
    /\ Get(r.world, get_front_position(r), "wall") # "wall"
    /\ Get(r.world, get_front_position(r), "wall") = "door" => r.door_opened

is_front_clear(r) == Get(r.world, get_front_position(r), "wall") # "wall"

on_key(r) == Get(r.world, <<r.x, r.y>>, "floor") = "key"

at_door(r) == Get(r.world, <<r.x, r.y>>, "floor") = "door"

at_exit(r) == Get(r.world, <<r.x, r.y>>, "floor") = "exit"

\* the value of correct_key_pos when the runner has no such attribute
no_attribute == << >>

\* VaultRunner.__init__; correct_key_pos is an attribute a caller may add
NewRunner(world_map, pos, dir) ==
    [ x |-> pos[1], y |-> pos[2], direction |-> dir,
      has_key |-> FALSE, door_opened |-> FALSE, escaped |-> FALSE,
      escape_via |-> "None", world |-> world_map, original_world |-> world_map,
      correct_key_pos |-> no_attribute ]

\* mutant: the robot moves whatever is in front of it
move_forward_Unchecked(r) ==
    [r |-> [r EXCEPT !.x = get_front_position(r)[1],
                     !.y = get_front_position(r)[2]],
     ret |-> TRUE]

\* Each mutator gives the runner after the call and the value returned.
move_forward(r) ==
    IF is_front_clear(r)
    THEN [r |-> [r EXCEPT !.x = get_front_position(r)[1],
                          !.y = get_front_position(r)[2]],
          ret |-> TRUE]
    ELSE [r |-> r, ret |-> FALSE]

\* mutant: turn_left turns clockwise
turn_left_Clockwise(r) == [r EXCEPT !.direction = (r.direction + 1) % 4]

turn_left(r) == [r EXCEPT !.direction = (r.direction - 1) % 4]

turn_right(r) == [r EXCEPT !.direction = (r.direction + 1) % 4]

\* mutant: the key is taken and its tile is left a key
pick_key_KeepsTile(r) ==
    IF on_key(r) /\ ~r.has_key
    THEN [r |-> [r EXCEPT !.has_key = TRUE], ret |-> TRUE]
    ELSE [r |-> r, ret |-> FALSE]

pick_key(r) ==
    IF on_key(r) /\ ~r.has_key
    THEN [r |-> [r EXCEPT !.has_key = TRUE,
                          !.world = [r.world EXCEPT ![<<r.x, r.y>>] = "floor"]],
          ret |-> TRUE]
    ELSE [r |-> r, ret |-> FALSE]

\* only the key at correct_key_pos is taken
pick_key_extension(r, correct_key_pos) ==
    IF on_key(r) /\ ~r.has_key
    THEN IF <<r.x, r.y>> = correct_key_pos
         THEN [r |-> [r EXCEPT !.has_key = TRUE,
                               !.world = [r.world EXCEPT ![<<r.x, r.y>>] = "floor"]],
               ret |-> TRUE]
         ELSE [r |-> r, ret |-> FALSE]
    ELSE [r |-> r, ret |-> FALSE]

\* mutant: opening the door uses the key up
open_door_ConsumesKey(r) ==
    IF at_door(r) /\ r.has_key
    THEN [r |-> [r EXCEPT !.door_opened = TRUE, !.has_key = FALSE], ret |-> TRUE]
    ELSE [r |-> r, ret |-> FALSE]

\* mutant: the opened door is taken out of the world
open_door_RemovesDoor(r) ==
    IF at_door(r) /\ r.has_key
    THEN [r |-> [r EXCEPT !.door_opened = TRUE,
                          !.world = [r.world EXCEPT ![<<r.x, r.y>>] = "floor"]],
          ret |-> TRUE]
    ELSE [r |-> r, ret |-> FALSE]

\* mutant: the door opens without the key
open_door_NoKeyNeeded(r) ==
    IF at_door(r)
    THEN [r |-> [r EXCEPT !.door_opened = TRUE], ret |-> TRUE]
    ELSE [r |-> r, ret |-> FALSE]

open_door(r) ==
    IF at_door(r) /\ r.has_key
    THEN [r |-> [r EXCEPT !.door_opened = TRUE], ret |-> TRUE]
    ELSE [r |-> r, ret |-> FALSE]

\* mutant: only the exit tile escapes
check_escape_ExitOnly(r) ==
    IF at_exit(r)
    THEN [r EXCEPT !.escaped = TRUE, !.escape_via = "exit"]
    ELSE r

\* mutant: a door escapes whether or not it has been opened
check_escape_AnyDoor(r) ==
    IF at_exit(r)
    THEN [r EXCEPT !.escaped = TRUE, !.escape_via = "exit"]
    ELSE IF at_door(r)
    THEN [r EXCEPT !.escaped = TRUE, !.escape_via = "door"]
    ELSE r

check_escape(r) ==
    IF at_exit(r)
    THEN [r EXCEPT !.escaped = TRUE, !.escape_via = "exit"]
    ELSE IF at_door(r) /\ r.door_opened
    THEN [r EXCEPT !.escaped = TRUE, !.escape_via = "door"]
    ELSE r

-----------------------------------------------------------------------------
(* Sensor evaluation *)

evaluate_sensor(r, sensor_token) ==
    CASE sensor_token.v = "FRONT" -> is_front_clear(r)
      [] sensor_token.v = "KEY"   -> on_key(r)
      [] sensor_token.v = "DOOR"  -> at_door(r)
      [] sensor_token.v = "EXIT"  -> at_exit(r)

-----------------------------------------------------------------------------
(* VaultInterpreter.run: one action per kind of token dispatched *)

Frame(type, start_pc, end_pc, data) ==
    [type |-> type, start_pc |-> start_pc, end_pc |-> end_pc, data |-> data]

Top(stk) == stk[Len(stk)]

Pop(stk) == SubSeq(stk, 1, Len(stk) - 1)

\* mutant: the budget test is missing
Dispatching_NoBudget ==
    /\ status = "running"
    /\ pc < Len(tokens)
    /\ ~runner.escaped

\* mutant: the budget test lets one dispatch too many through
Dispatching_OneMore ==
    /\ status = "running"
    /\ pc < Len(tokens)
    /\ ~runner.escaped
    /\ instruction_count <= max_instructions

\* the while condition and the budget test both let the iteration through,
\* in run() and in execute_next_step alike
Dispatching ==
    /\ status \in { "running", "stepping" }
    /\ pc < Len(tokens)
    /\ ~runner.escaped
    /\ instruction_count < max_instructions

token == TokenAt(tokens, pc)

step_info ==
    [ pc |-> pc, token |-> token, position |-> <<runner.x, runner.y>>,
      direction |-> runner.direction, has_key |-> runner.has_key,
      door_opened |-> runner.door_opened ]

Count ==
    /\ instruction_count' = instruction_count + 1
    /\ execution_history' = Append(execution_history, step_info)

\* _execute_instruction returned leaving pc at new_pc: pc += 1, and in run()
\* check_escape; execute_next_step updates the display instead
CompletesWith(new_pc, r, stk, f, wc, rv, ms, saved) ==
    /\ Count
    /\ pc' = new_pc + 1
    /\ runner' = IF status = "stepping" THEN r ELSE check_escape(r)
    /\ call_stack' = stk
    /\ flag' = f
    /\ wait_counter' = wc
    /\ ret' = rv
    /\ marks' = ms
    /\ saved_states' = saved
    /\ UNCHANGED << program, earlier, tokens, extended, max_instructions, start_pos, start_dir,
                    status, error, result >>

\* the same for a handler that leaves marks and saved_states alone
Completes(new_pc, r, stk, f, wc, rv) ==
    CompletesWith(new_pc, r, stk, f, wc, rv, marks, saved_states)

\* _execute_instruction raised: run() re-raises, nothing after the raise
\* runs; execute_next_step catches it and completes the step execution
Raises(kind) ==
    /\ Count
    /\ status' = IF status = "stepping" THEN "stepped" ELSE "raised"
    /\ error' = kind
    /\ result' = IF status = "stepping" THEN runner.escaped ELSE result
    /\ UNCHANGED << program, marks, saved_states, earlier, tokens, extended,
                    max_instructions, pc, runner, call_stack, flag, wait_counter,
                    start_pos, start_dir, ret >>

\* VaultInterpreter(program_lines) / ExtendedVaultInterpreter(program_lines):
\* the tokenizer runs, nothing else of the program is looked at
Construct ==
    /\ status = "new"
    /\ LET t == IF extended THEN extended_tokenize(program) ELSE tokenize(program)
       IN  IF t.error # ""
           THEN /\ status' = "rejected"
                /\ error' = t.error
                /\ tokens' = tokens
           ELSE /\ status' = "constructed"
                /\ error' = error
                /\ tokens' = t.tokens
    /\ pc' = 0
    /\ call_stack' = << >>
    /\ flag' = FALSE
    /\ instruction_count' = 0
    /\ execution_history' = << >>
    /\ wait_counter' = 0
    /\ marks' = << >>
    /\ saved_states' = << >>
    /\ UNCHANGED << program, earlier, extended, max_instructions, runner,
                    start_pos, start_dir, ret, result >>

Run ==
    /\ status = "constructed"
    /\ status' = "running"
    /\ pc' = 0
    /\ call_stack' = << >>
    /\ flag' = FALSE
    /\ instruction_count' = 0
    /\ execution_history' = << >>
    /\ UNCHANGED << program, marks, saved_states, earlier, tokens, extended, max_instructions, wait_counter, runner,
                    start_pos, start_dir, error, ret, result >>

\* how a run() call ended, as its caller sees it
Outcome ==
    [ status |-> status, error |-> error, result |-> result, runner |-> runner,
      pc |-> pc, instruction_count |-> instruction_count ]

\* mutant: run() leaves the frames of the earlier run on the stack
Rerun_KeepsStack ==
    /\ status \in { "returned", "raised", "stepped" }
    /\ Len(earlier) + 1 < MaxRuns
    /\ earlier' = Append(earlier, Outcome)
    /\ runner' = [NewRunner(runner.original_world, start_pos, start_dir)
                    EXCEPT !.correct_key_pos = runner.correct_key_pos]
    /\ status' = "running"
    /\ error' = ""
    /\ result' = FALSE
    /\ pc' = 0
    /\ call_stack' = call_stack
    /\ flag' = FALSE
    /\ instruction_count' = 0
    /\ execution_history' = << >>
    /\ UNCHANGED << program, marks, saved_states, tokens, extended, max_instructions, wait_counter,
                    start_pos, start_dir, ret >>

\* run() called on an interpreter that has run or has been stepped, with a
\* fresh runner constructed as the first one was
Rerun ==
    /\ status \in { "returned", "raised", "stepped" }
    /\ Len(earlier) + 1 < MaxRuns
    /\ earlier' = Append(earlier, Outcome)
    /\ runner' = [NewRunner(runner.original_world, start_pos, start_dir)
                    EXCEPT !.correct_key_pos = runner.correct_key_pos]
    /\ status' = "running"
    /\ error' = ""
    /\ result' = FALSE
    /\ pc' = 0
    /\ call_stack' = << >>
    /\ flag' = FALSE
    /\ instruction_count' = 0
    /\ execution_history' = << >>
    /\ UNCHANGED << program, marks, saved_states, tokens, extended, max_instructions, wait_counter,
                    start_pos, start_dir, ret >>

\* mutant: reset leaves the world as the run left it
reset_KeepsWorld(r) ==
    [r EXCEPT !.x = 0, !.y = 0, !.direction = 0, !.has_key = FALSE,
              !.door_opened = FALSE, !.escaped = FALSE]

\* VaultRunner.reset
reset(r) ==
    [r EXCEPT !.x = 0, !.y = 0, !.direction = 0, !.has_key = FALSE,
              !.door_opened = FALSE, !.escaped = FALSE,
              !.world = r.original_world]

\* the caller resets the runner after a run
Reset ==
    /\ status \in { "returned", "raised" }
    /\ status' = "reset"
    /\ runner' = reset(runner)
    /\ UNCHANGED << program, marks, saved_states, earlier, tokens, extended, max_instructions, pc,
                    call_stack, flag, instruction_count, execution_history,
                    wait_counter, start_pos, start_dir, error, ret, result >>

StepMove ==
    /\ Dispatching
    /\ token.v = "MOVE"
    /\ LET m == move_forward(runner)
       IN  Completes(pc, m.r, call_stack, flag, wait_counter, m.ret)

\* mutant: LEFT turns at random, as RTURN does
StepLeft_Random ==
    /\ Dispatching
    /\ token.v = "LEFT"
    /\ \E left \in BOOLEAN :
          Completes(pc, IF left THEN turn_left(runner) ELSE turn_right(runner),
                    call_stack, flag, wait_counter, ret)

StepLeft ==
    /\ Dispatching
    /\ token.v = "LEFT"
    /\ Completes(pc, turn_left(runner), call_stack, flag, wait_counter, ret)

StepRight ==
    /\ Dispatching
    /\ token.v = "RIGHT"
    /\ Completes(pc, turn_right(runner), call_stack, flag, wait_counter, ret)

\* random_turn: random.random() < 0.5 is either outcome
StepRturn ==
    /\ Dispatching
    /\ token.v = "RTURN"
    /\ \E left \in BOOLEAN :
          Completes(pc, IF left THEN turn_left(runner) ELSE turn_right(runner),
                    call_stack, flag, wait_counter, ret)

StepPick ==
    /\ Dispatching
    /\ token.v = "PICK"
    /\ LET m == IF runner.correct_key_pos # no_attribute
                THEN pick_key_extension(runner, runner.correct_key_pos)
                ELSE pick_key(runner)
       IN  Completes(pc, m.r, call_stack, flag, wait_counter, m.ret)

StepOpen ==
    /\ Dispatching
    /\ token.v = "OPEN"
    /\ LET m == open_door(runner)
       IN  Completes(pc, m.r, call_stack, flag, wait_counter, m.ret)

\* mutant: LOOP 0 passes over its body, as a WHILE with a false sensor does
StepLoop_SkipsZero ==
    /\ Dispatching
    /\ token.v = "LOOP"
    /\ IF pc + 1 >= Len(tokens)
       THEN Raises("IndexError")
       ELSE LET count  == TokenAt(tokens, pc + 1)
                end_pc == find_matching_end(tokens, pc)
            IN  IF end_pc = -1
                THEN Raises("SyntaxError")
                ELSE IF count = Num(0)
                THEN Completes(end_pc, runner, call_stack, flag, wait_counter, ret)
                ELSE Completes(pc + 1, runner,
                               Append(call_stack, Frame("LOOP", pc + 2, end_pc, count)),
                               flag, wait_counter, ret)

StepLoop ==
    /\ Dispatching
    /\ token.v = "LOOP"
    /\ IF pc + 1 >= Len(tokens)
       THEN Raises("IndexError")
       ELSE LET count  == TokenAt(tokens, pc + 1)
                end_pc == find_matching_end(tokens, pc)
            IN  IF end_pc = -1
                THEN Raises("SyntaxError")
                ELSE Completes(pc + 1, runner,
                               Append(call_stack, Frame("LOOP", pc + 2, end_pc, count)),
                               flag, wait_counter, ret)

StepWhile ==
    /\ Dispatching
    /\ token.v = "WHILE"
    /\ IF pc + 1 >= Len(tokens)
       THEN Raises("IndexError")
       ELSE LET sensor == TokenAt(tokens, pc + 1)
                end_pc == find_matching_end(tokens, pc)
            IN  IF sensor.v \notin Sensors
                THEN Raises("RuntimeError")
                ELSE IF end_pc = -1
                THEN Raises("SyntaxError")
                ELSE IF evaluate_sensor(runner, sensor)
                THEN Completes(pc + 1, runner,
                               Append(call_stack, Frame("WHILE", pc, end_pc, sensor)),
                               flag, wait_counter, ret)
                ELSE Completes(end_pc, runner, call_stack, flag, wait_counter, ret)

\* mutant: a false IF goes to its END, which is then dispatched
StepIf_DispatchesEnd ==
    /\ Dispatching
    /\ token.v = "IF"
    /\ IF pc + 1 >= Len(tokens)
       THEN Raises("IndexError")
       ELSE LET sensor == TokenAt(tokens, pc + 1)
                end_pc == find_matching_end(tokens, pc)
            IN  IF sensor.v \notin Sensors
                THEN Raises("RuntimeError")
                ELSE IF end_pc = -1
                THEN Raises("SyntaxError")
                ELSE IF evaluate_sensor(runner, sensor)
                THEN Completes(pc + 1, runner, call_stack, flag, wait_counter, ret)
                ELSE Completes(end_pc - 1, runner, call_stack, flag, wait_counter, ret)

StepIf ==
    /\ Dispatching
    /\ token.v = "IF"
    /\ IF pc + 1 >= Len(tokens)
       THEN Raises("IndexError")
       ELSE LET sensor == TokenAt(tokens, pc + 1)
                end_pc == find_matching_end(tokens, pc)
            IN  IF sensor.v \notin Sensors
                THEN Raises("RuntimeError")
                ELSE IF end_pc = -1
                THEN Raises("SyntaxError")
                ELSE IF evaluate_sensor(runner, sensor)
                THEN Completes(pc + 1, runner, call_stack, flag, wait_counter, ret)
                ELSE Completes(end_pc, runner, call_stack, flag, wait_counter, ret)

\* mutant: the loop goes round once more (count >= 0)
EndLoop_OffByOne(top) ==
    IF top.data.v # "INT"
    THEN Raises("TypeError")
    ELSE LET count == top.data.n - 1
         IN  IF count >= 0
             THEN Completes(top.start_pc - 1, runner,
                            Append(Pop(call_stack),
                                   Frame("LOOP", top.start_pc, top.end_pc, Num(count))),
                            flag, wait_counter, ret)
             ELSE Completes(pc, runner, Pop(call_stack), flag, wait_counter, ret)

\* END with a LOOP frame on top: count down, jump back or pop
EndLoop(top) ==
    IF top.data.v # "INT"
    THEN Raises("TypeError")
    ELSE LET count == top.data.n - 1
         IN  IF count > 0
             THEN Completes(top.start_pc - 1, runner,
                            Append(Pop(call_stack),
                                   Frame("LOOP", top.start_pc, top.end_pc, Num(count))),
                            flag, wait_counter, ret)
             ELSE Completes(pc, runner, Pop(call_stack), flag, wait_counter, ret)

\* mutant: the sensor is not tested again, the WHILE runs its body once
EndWhile_NoRepeat(top) ==
    Completes(pc, runner, Pop(call_stack), flag, wait_counter, ret)

\* mutant: the jump goes to the WHILE token, which is dispatched again
EndWhile_Reenter(top) ==
    IF evaluate_sensor(runner, top.data)
    THEN Completes(top.start_pc - 1, runner, call_stack, flag, wait_counter, ret)
    ELSE Completes(pc, runner, Pop(call_stack), flag, wait_counter, ret)

\* END with a WHILE frame on top: test the sensor again, jump back or pop
EndWhile(top) ==
    IF evaluate_sensor(runner, top.data)
    THEN Completes(top.start_pc, runner, call_stack, flag, wait_counter, ret)
    ELSE Completes(pc, runner, Pop(call_stack), flag, wait_counter, ret)

\* END acts on the top frame, whichever block this END closes
StepEnd ==
    /\ Dispatching
    /\ token.v = "END"
    /\ IF call_stack = << >>
       THEN Completes(pc, runner, call_stack, flag, wait_counter, ret)
       ELSE IF Top(call_stack).type = "LOOP"
       THEN EndLoop(Top(call_stack))
       ELSE IF Top(call_stack).type = "WHILE"
       THEN EndWhile(Top(call_stack))
       ELSE Completes(pc, runner, Pop(call_stack), flag, wait_counter, ret)

StepSet ==
    /\ Dispatching
    /\ token.v = "SET"
    /\ Completes(pc, runner, call_stack, TRUE, wait_counter, ret)

StepClr ==
    /\ Dispatching
    /\ token.v = "CLR"
    /\ Completes(pc, runner, call_stack, FALSE, wait_counter, ret)

StepSensor ==
    /\ Dispatching
    /\ token.v \in Sensors
    /\ IF call_stack = << >> \/ Top(call_stack).type \notin {"IF", "WHILE"}
       THEN Raises("RuntimeError")
       ELSE Completes(pc, runner, call_stack, flag, wait_counter, ret)

\* the final else: an integer is skipped
StepInt ==
    /\ Dispatching
    /\ token.v = "INT"
    /\ Completes(pc, runner, call_stack, flag, wait_counter, ret)

\* the final else: a keyword the tokenizer accepts and no branch handles
StepUnknown ==
    /\ Dispatching
    /\ token.v \in extended_keywords \ ExtendedCommands
    /\ Raises("RuntimeError")

\* ExtendedVaultInterpreter._execute_wait
StepWait ==
    /\ Dispatching
    /\ extended
    /\ token.v = "WAIT"
    /\ IF wait_counter > 0
       THEN Completes(pc - 1, runner, call_stack, flag, wait_counter - 1, ret)
       ELSE IF pc + 1 < Len(tokens) /\ TokenAt(tokens, pc + 1).v = "INT"
       THEN Completes(pc + 1, runner, call_stack, flag,
                      TokenAt(tokens, pc + 1).n, ret)
       ELSE Completes(pc, runner, call_stack, flag, 1, ret)

\* ExtendedVaultInterpreter._execute_mark: the name is mark_<len(marks)>, so
\* the dict is its values in insertion order
StepMark ==
    /\ Dispatching
    /\ extended
    /\ token.v = "MARK"
    /\ CompletesWith(pc, runner, call_stack, flag, wait_counter, ret,
                     Append(marks, <<runner.x, runner.y>>), saved_states)

\* the body of _execute_goto for the mark at target: one turn or one move
goto(r, target) ==
    LET dx == target[1] - r.x
        dy == target[2] - r.y
    IN  IF dx = 0 /\ dy = 0 THEN [r |-> r, moved |-> FALSE]
        ELSE IF dx > 0 /\ r.direction # 1 THEN [r |-> turn_right(r), moved |-> FALSE]
        ELSE IF dx < 0 /\ r.direction # 3 THEN [r |-> turn_left(r), moved |-> FALSE]
        ELSE IF dy > 0 /\ r.direction # 0 THEN [r |-> turn_left(r), moved |-> FALSE]
        ELSE IF dy < 0 /\ r.direction # 2 THEN [r |-> turn_right(r), moved |-> FALSE]
        ELSE IF is_front_clear(r) THEN [r |-> move_forward(r).r, moved |-> TRUE]
        ELSE [r |-> r, moved |-> FALSE]

\* ExtendedVaultInterpreter._execute_goto: towards the most recent mark
StepGoto ==
    /\ Dispatching
    /\ extended
    /\ token.v = "GOTO"
    /\ IF marks = << >>
       THEN Completes(pc, runner, call_stack, flag, wait_counter, ret)
       ELSE LET g == goto(runner, marks[Len(marks)])
            IN  Completes(pc, g.r, call_stack, flag, wait_counter,
                          IF g.moved THEN TRUE ELSE ret)

\* ExtendedVaultInterpreter._execute_scan and _execute_count: the heading is
\* put back after the scan, and scan_results and count are never read
StepScan ==
    /\ Dispatching
    /\ extended
    /\ token.v \in { "SCAN", "COUNT" }
    /\ Completes(pc, runner, call_stack, flag, wait_counter, ret)

\* the state dict _execute_save appends
saved_state ==
    [ position |-> <<runner.x, runner.y>>, direction |-> runner.direction,
      has_key |-> runner.has_key, door_opened |-> runner.door_opened,
      world |-> runner.world, marks |-> marks, flag |-> flag ]

\* ExtendedVaultInterpreter._execute_save
StepSave ==
    /\ Dispatching
    /\ extended
    /\ token.v = "SAVE"
    /\ CompletesWith(pc, runner, call_stack, flag, wait_counter, ret, marks,
                     Append(saved_states, saved_state))

\* ExtendedVaultInterpreter._execute_load: the last saved state is popped
\* and put back; escaped and escape_via are not part of it
StepLoad ==
    /\ Dispatching
    /\ extended
    /\ token.v = "LOAD"
    /\ IF saved_states = << >>
       THEN Completes(pc, runner, call_stack, flag, wait_counter, ret)
       ELSE LET state == saved_states[Len(saved_states)]
            IN  CompletesWith(pc,
                              [runner EXCEPT !.x = state.position[1],
                                             !.y = state.position[2],
                                             !.direction = state.direction,
                                             !.has_key = state.has_key,
                                             !.door_opened = state.door_opened,
                                             !.world = state.world],
                              call_stack, state.flag, wait_counter, ret,
                              state.marks, Pop(saved_states))

\* str.startswith('#')
is_comment_line(s) == s # "" /\ Char(s, 1) = "#"

\* the lines test_position_step_by_step gives the interpreter: stripped, and
\* neither empty nor a comment
RECURSIVE editor_lines(_)
editor_lines(lines) ==
    IF lines = << >> THEN << >>
    ELSE IF strip(Head(lines)) # "" /\ ~is_comment_line(strip(Head(lines)))
    THEN << strip(Head(lines)) >> \o editor_lines(Tail(lines))
    ELSE editor_lines(Tail(lines))

\* the budget test_position_step_by_step gives the step interpreter
step_max_instructions == 1000

\* VaultRunnerGUI.test_position_step_by_step: the interpreter is built from
\* the text of the editor and step execution starts; run() is not called
test_position_step_by_step ==
    /\ status = "editor"
    /\ LET t == tokenize(editor_lines(program))
       IN  IF t.error # ""
           THEN /\ status' = "rejected"
                /\ error' = t.error
                /\ tokens' = tokens
           ELSE /\ status' = "stepping"
                /\ error' = error
                /\ tokens' = t.tokens
    /\ max_instructions' = step_max_instructions
    /\ pc' = 0
    /\ call_stack' = << >>
    /\ flag' = FALSE
    /\ instruction_count' = 0
    /\ execution_history' = << >>
    /\ UNCHANGED << program, marks, saved_states, earlier, extended, wait_counter,
                    runner, start_pos, start_dir, ret, result >>

\* VaultRunnerGUI.execute_next_step when the program is complete, the robot
\* has escaped or the budget is used up: complete_step_execution
complete_step_execution ==
    /\ status = "stepping"
    /\ \/ pc >= Len(tokens)
       \/ runner.escaped
       \/ instruction_count >= max_instructions
    /\ status' = "stepped"
    /\ result' = runner.escaped
    /\ UNCHANGED << program, marks, saved_states, earlier, tokens, extended,
                    max_instructions, pc, call_stack, flag, instruction_count,
                    execution_history, wait_counter, runner, start_pos, start_dir,
                    error, ret >>

\* mutant: the budget test does not leave the loop
BreakBudget_NoBreak ==
    /\ status = "running"
    /\ pc < Len(tokens)
    /\ ~runner.escaped
    /\ instruction_count >= max_instructions
    /\ UNCHANGED vars

\* mutant: the budget test breaks one dispatch early
BreakBudget_Early ==
    /\ status = "running"
    /\ pc < Len(tokens)
    /\ ~runner.escaped
    /\ instruction_count + 1 >= max_instructions
    /\ status' = "returned"
    /\ result' = runner.escaped
    /\ UNCHANGED << program, marks, saved_states, earlier, tokens, extended, max_instructions, pc, call_stack, flag,
                    instruction_count, execution_history, wait_counter, runner,
                    start_pos, start_dir, error, ret >>

\* the budget test: break, then return self.runner.escaped
BreakBudget ==
    /\ status = "running"
    /\ pc < Len(tokens)
    /\ ~runner.escaped
    /\ instruction_count >= max_instructions
    /\ status' = "returned"
    /\ result' = runner.escaped
    /\ UNCHANGED << program, marks, saved_states, earlier, tokens, extended, max_instructions, pc, call_stack, flag,
                    instruction_count, execution_history, wait_counter, runner,
                    start_pos, start_dir, error, ret >>

\* the while condition is false: return self.runner.escaped
Return ==
    /\ status = "running"
    /\ ~(pc < Len(tokens) /\ ~runner.escaped)
    /\ status' = "returned"
    /\ result' = runner.escaped
    /\ UNCHANGED << program, marks, saved_states, earlier, tokens, extended, max_instructions, pc, call_stack, flag,
                    instruction_count, execution_history, wait_counter, runner,
                    start_pos, start_dir, error, ret >>

Step ==
    \/ StepMove \/ StepLeft \/ StepRight \/ StepRturn \/ StepPick \/ StepOpen
    \/ StepLoop \/ StepWhile \/ StepIf \/ StepEnd
    \/ StepSet \/ StepClr \/ StepSensor \/ StepInt \/ StepUnknown
    \/ StepWait \/ StepMark \/ StepGoto \/ StepScan \/ StepSave \/ StepLoad

Next ==
    \/ Construct \/ Run \/ Rerun \/ Reset \/ Step \/ BreakBudget \/ Return
    \/ test_position_step_by_step \/ complete_step_execution

-----------------------------------------------------------------------------
(* The programs, worlds and start poses the runs are started on *)

tMOVE == Tok("MOVE")
tLEFT == Tok("LEFT")
tRIGHT == Tok("RIGHT")
tRTURN == Tok("RTURN")
tPICK == Tok("PICK")
tOPEN == Tok("OPEN")
tLOOP == Tok("LOOP")
tEND == Tok("END")
tIF == Tok("IF")
tWHILE == Tok("WHILE")
tFRONT == Tok("FRONT")
tKEY == Tok("KEY")
tDOOR == Tok("DOOR")
tEXIT == Tok("EXIT")
tSET == Tok("SET")
tCLR == Tok("CLR")
tWAIT == Tok("WAIT")
tNORTH == Tok("NORTH")
tMARK == Tok("MARK")
tGOTO == Tok("GOTO")
tSCAN == Tok("SCAN")
tCOUNT == Tok("COUNT")
tSAVE == Tok("SAVE")
tLOAD == Tok("LOAD")

ActionTokens == { tMOVE, tLEFT, tRIGHT, tRTURN, tPICK, tOPEN }

SensorTokens == { tFRONT, tKEY, tDOOR, tEXIT }

\* straight-line programs: the scenarios of the tests and of demo worlds
simple_move == << tMOVE, tMOVE, tLEFT, tMOVE >>

KeyDoorExit == << tMOVE, tPICK, tMOVE, tOPEN, tMOVE >>

NoPick == << tMOVE, tMOVE, tOPEN, tMOVE >>

StraightPrograms ==
    { simple_move, KeyDoorExit, NoPick,
      << tPICK, tPICK, tMOVE, tOPEN, tOPEN >>,
      << tMOVE, tPICK, tLEFT, tLEFT, tMOVE, tPICK, tRTURN, tPICK >>,
      << tSET, tMOVE, tCLR, tOPEN, tRIGHT, tMOVE >>,
      << tLEFT, tRIGHT, tRIGHT, tLEFT, tLEFT, tLEFT, tLEFT, tLEFT, tRIGHT,
         tRIGHT, tRIGHT, tRIGHT >>,
      << tRTURN, tRTURN, tLEFT, tMOVE, tRTURN >> }

LoopPrograms ==
    { << tLOOP, Num(n), a, tEND >> : n \in 0..MaxN, a \in ActionTokens }

WhilePrograms ==
    { << tWHILE, s, a, tEND >> : s \in SensorTokens, a \in ActionTokens }

IfPrograms ==
    { << tIF, s, a, tEND, tMOVE >> : s \in SensorTokens, a \in ActionTokens }

\* blocks inside blocks
NestedPrograms ==
    { << tLOOP, Num(n), tIF, s, a, tEND, b, tEND >> :
          n \in 1..MaxN, s \in { tFRONT, tKEY }, a \in { tMOVE, tPICK }, b \in { tMOVE, tLEFT } }
    \cup
    { << tWHILE, tFRONT, tIF, s, a, tEND, tMOVE, tEND, tLEFT >> :
          s \in { tKEY, tDOOR }, a \in { tPICK, tOPEN } }
    \cup
    { << tLOOP, Num(n), tWHILE, tFRONT, tMOVE, tEND, tRIGHT, tEND >> : n \in 1..MaxN }
    \cup
    { << tLOOP, Num(2), tLOOP, Num(n), tMOVE, tEND, tLEFT, tEND >> : n \in 1..MaxN }
    \cup
    { << tWHILE, tFRONT, tMOVE, tKEY, tEND >>,
      << tLOOP, Num(2), tFRONT, tEND >>,
      << tIF, tFRONT, tIF, tKEY, tPICK, tEND, tMOVE, tEND, tMOVE >> }

\* programs the tokenizer accepts and the run faults on or misuses
OddPrograms ==
    { << tLOOP, Num(2), tMOVE >>, << tMOVE, tIF, tFRONT, tMOVE >>,
      << tWHILE, tFRONT, tMOVE >>, << tLOOP, tMOVE, tEND >>, << tLOOP, tEND >>,
      << tWHILE, tMOVE, tEND >>, << tIF, Num(1), tMOVE, tEND >>,
      << tMOVE, Num(3), tMOVE >>, << tEND, tMOVE, tEND >>,
      << tIF, tFRONT, tKEY, tEND >>, << tMOVE, tLOOP >>, << >>,
      << tEND, tLOOP, Num(2), tLEFT, tEND >> }

\* every program of at most MaxProgLen tokens
Alphabet == { Tok(k) : k \in valid_keywords } \cup { Num(2) }

ShortPrograms == UNION { [1..len -> Alphabet] : len \in 1..MaxProgLen }

\* programs of the extended interpreter
ExtendedPrograms ==
    { << tWAIT, Num(n), tMOVE, tWAIT, tMOVE >> : n \in 0..MaxN }
    \cup
    { << tWAIT, Num(n), tWAIT, Num(1), tMOVE, tWAIT >> : n \in 1..MaxN }
    \cup
    { << tWAIT, tMOVE, tWAIT, tMOVE >>, << tLOOP, Num(2), tWAIT, tEND >>,
      << tMOVE, tNORTH, tMOVE >>, KeyDoorExit,
      << tWHILE, tFRONT, tWAIT, Num(1), tMOVE, tEND >>,
      << tSAVE, tMOVE, tPICK, tSET, tMARK, tLOAD, tMOVE, tGOTO, tLOAD >>,
      << tLOAD, tMOVE, tSAVE >>, << tGOTO, tMOVE, tMARK >>,
      << tSCAN, tMOVE, tCOUNT, tPICK, tSCAN >>,
      << tMOVE, tPICK, tSAVE, tMOVE, tOPEN >> }

\* what comes between MARK and the GOTOs: a step away and a turn, or a step
\* away and a step aside
Displacements ==
    { << >>, << tLEFT >>, << tMOVE >>, << tMOVE, tLEFT >>, << tMOVE, tRIGHT >>,
      << tMOVE, tLEFT, tLEFT >>, << tMOVE, tLEFT, tMOVE >>,
      << tMOVE, tRIGHT, tMOVE >> }

\* the GOTOs dispatched one after another
GotoRounds == 6

\* MARK, a displacement, then GOTO again and again
GotoPrograms ==
    { << tMARK >> \o d \o [ i \in 1..GotoRounds |-> tGOTO ] : d \in Displacements }

\* 3 x 3 cells of floor
FieldWorld == [ p \in (0..2) \X (0..2) |-> "floor" ]

\* worlds: dicts from (x, y) to a tile
SimpleWorld ==
    (<<0, 0>> :> "floor") @@ (<<1, 0>> :> "key") @@ (<<2, 0>> :> "door")
    @@ (<<3, 0>> :> "exit")

\* the robot's cell, k floor cells east of it, then a wall
CorridorWorld(k) ==
    [ p \in { <<i, 0>> : i \in 0..(k + 1) } |->
        IF p[1] = k + 1 THEN "wall" ELSE "floor" ]

\* the world of test_simple_program_execution: (2, 1) is not mapped
TestWorld ==
    (<<0, 0>> :> "floor") @@ (<<1, 0>> :> "floor") @@ (<<2, 0>> :> "floor")
    @@ (<<-1, 0>> :> "wall") @@ (<<3, 0>> :> "wall") @@ (<<0, 1>> :> "wall")
    @@ (<<0, -1>> :> "wall")

\* a 2 x 2 room with the key, the door and the exit, one wall tile beside it
RoomWorld ==
    (<<0, 0>> :> "floor") @@ (<<1, 0>> :> "key") @@ (<<1, 1>> :> "door")
    @@ (<<0, 1>> :> "exit") @@ (<<2, 0>> :> "wall")

\* a floor cell with a floor cell on each side
OpenWorld ==
    (<<0, 0>> :> "floor") @@ (<<0, 1>> :> "floor") @@ (<<1, 0>> :> "floor")
    @@ (<<0, -1>> :> "floor") @@ (<<-1, 0>> :> "floor")

Worlds == { SimpleWorld, TestWorld, RoomWorld, OpenWorld } \cup { CorridorWorld(k) : k \in 0..MaxK }

Budgets == { LowBudget, MaxInstructions }

\* start_pos is the caller's choice: any mapped cell, or one that is not mapped
StartCells(w) == DOMAIN w \cup { <<0, 1>> }

\* a world with two keys
TwoKeyWorld ==
    (<<0, 0>> :> "floor") @@ (<<1, 0>> :> "key") @@ (<<2, 0>> :> "key")
    @@ (<<3, 0>> :> "door") @@ (<<4, 0>> :> "exit")

\* programs that pick on one key tile and the other
TwoKeyPrograms ==
    { << tMOVE, tPICK, tMOVE, tPICK, tPICK, tMOVE, tOPEN, tMOVE >>,
      << tMOVE, tMOVE, tPICK, tLEFT, tLEFT, tMOVE, tPICK, tLEFT, tLEFT,
         tMOVE, tMOVE, tOPEN >>,
      << tWHILE, tFRONT, tMOVE, tPICK, tEND >>,
      KeyDoorExit }

\* str(n)
RECURSIVE str(_)
str(n) ==
    IF n < 10 THEN Char(decimal_digits, n + 1)
    ELSE str(n \div 10) \o Char(decimal_digits, (n % 10) + 1)

\* the symbol a token is written as
Symbol(t) == IF t.v = "INT" THEN str(t.n) ELSE t.v

\* a source of the token sequence: one symbol a line
Source(toks) == [ i \in 1..Len(toks) |-> Symbol(toks[i]) ]

\* the program of test_extension_token_limit: 26 distinct keywords
extension_token_limit ==
    << "MOVE", "LEFT", "RIGHT", "PICK", "OPEN", "LOOP", "END", "IF", "WHILE",
       "FRONT", "KEY", "DOOR", "EXIT", "SET", "CLR", "WAIT", "MARK", "GOTO",
       "SCAN", "COUNT", "SAVE", "LOAD", "NORTH", "SOUTH", "EAST", "WEST" >>

\* sources written as a person writes them, and sources the tokenizer refuses
SourcePrograms ==
    { << "MOVE", "LEFT", "PICK", "LOOP 3", "MOVE", "END" >>,
      << "MOVE", "INVALID_TOKEN", "LEFT" >>,
      << "move  # go", "   ", "# c", "  Loop 2 ", "MOVE#x", "end" >>,
      << "\tif front", "\t\tmove", "\tend", "", "Pick" >>,
      << "MOVE #", "##", "Pick  Open" >>,
      << "LOOP 3", "MOVE" >>,
      << "while front # no end", "  move" >>,
      << "MOVE ^" >>, << "LOOP 2^", "MOVE", "END" >>,
      << "MOVE -1" >>, << "JUMP" >>, << "move 007 left" >>, << "MOVE2" >>,
      << "MOVE # JUMP" >>, << "WAIT 2", "MOVE" >>, << "1 2 3" >>,
      << "", " ", "\t" >>, << "#" >>,
      extension_token_limit,
      SubSeq(extension_token_limit, 1, MaxDistinctTokens),
      SubSeq(extension_token_limit, 1, MaxDistinctTokens + 1),
      << "1", "2", "3" >> \o SubSeq(extension_token_limit, 1, MaxDistinctTokens)
         \o << "4", "MOVE", "LEFT" >>,
      << "21" >> \o SubSeq(extension_token_limit, 1, MaxDistinctTokens - 1) }

lower_of ==
    [ c \in { Char(ascii_uppercase, i) : i \in 1..26 } |->
        Char(ascii_lowercase, CHOOSE i \in 1..26 : Char(ascii_uppercase, i) = c) ]

\* str.lower()
RECURSIVE lower(_)
lower(s) ==
    IF s = "" THEN ""
    ELSE (IF Char(s, 1) \in DOMAIN lower_of THEN lower_of[Char(s, 1)] ELSE Char(s, 1))
         \o lower(SubSeq(s, 2, Len(s)))

\* ' '.join(symbols)
RECURSIVE join(_)
join(symbols) ==
    IF symbols = << >> THEN ""
    ELSE IF Len(symbols) = 1 THEN symbols[1]
    ELSE symbols[1] \o " " \o join(Tail(symbols))

\* the ways a sequence of symbols is written down
Styles == { "plain", "lower", "indented", "commented", "one line" }

Written(symbols, style) ==
    CASE style = "plain"     -> symbols
      [] style = "lower"     -> [ i \in 1..Len(symbols) |-> lower(symbols[i]) ]
      [] style = "indented"  ->
            [ i \in 1..Len(symbols) |->
                " \t" \o Char(symbols[i], 1)
                      \o lower(SubSeq(symbols[i], 2, Len(symbols[i]))) \o "  " ]
      [] style = "commented" ->
            << "# program", "" >>
            \o [ i \in 1..Len(symbols) |->
                   symbols[i] \o "  # then " \o lower(symbols[i]) ]
            \o << "   ", "#" >>
      [] style = "one line"  -> << "\t" \o join(symbols) \o " #end" >>

\* token sequences written in every style
WrittenPrograms ==
    { simple_move, KeyDoorExit, << tLOOP, Num(3), tMOVE, tEND >>,
      << tIF, tFRONT, tMOVE, tEND, tMOVE >>,
      << tWHILE, tFRONT, tSET, tCLR, tRTURN, tEND, Num(10) >> }

\* symbols that are neither a keyword, a sensor nor a non-negative integer
OtherSymbols == { "JUMP", "-1", "MOVE2", "3.5", "WAIT", "2" \o superscript_two }

\* the symbols with one more put in before the k-th
InsertAt(symbols, k, symbol) ==
    SubSeq(symbols, 1, k - 1) \o << symbol >> \o SubSeq(symbols, k, Len(symbols))

\* programs.program1_corridor, line by line
program1_corridor ==
    << "WHILE FRONT",
       "  MOVE",
       "  IF KEY",
       "    PICK",
       "  END",
       "  IF DOOR",
       "    OPEN",
       "    MOVE",
       "  END",
       "  IF EXIT",
       "    MOVE",
       "  END",
       "END",
       "LOOP 3",
       "  RIGHT",
       "  WHILE FRONT",
       "    MOVE",
       "    IF KEY",
       "      PICK",
       "    END",
       "    IF DOOR",
       "      OPEN",
       "      MOVE",
       "    END",
       "    IF EXIT",
       "      MOVE",
       "    END",
       "  END",
       "  # Backtrack by turning around and going back to wall",
       "  LEFT",
       "  LEFT",
       "  WHILE FRONT",
       "    MOVE",
       "  END",
       "  LEFT",
       "  LEFT",
       "END" >>

\* vault_runner.create_corridor_world()
create_corridor_world ==
    [ p \in { <<0, 0>>, <<1, 0>>, <<2, 0>>, <<3, 0>>, <<4, 0>>, <<5, 0>>,
              <<5, 1>>, <<5, 2>>, <<5, 3>>, <<5, 4>>,
              <<0, 1>>, <<1, 1>>, <<2, 1>>, <<3, 1>>, <<4, 1>>,
              <<0, -1>>, <<1, -1>>, <<2, -1>>, <<3, -1>>, <<4, -1>>, <<5, -1>>,
              <<4, 2>>, <<4, 3>>, <<4, 4>>,
              <<6, 1>>, <<6, 2>>, <<6, 3>>, <<6, 4>>,
              <<-1, 0>>, <<-1, -1>>, <<-1, 1>>,
              <<5, 5>>, <<4, 5>>, <<6, 5>> } |->
        CASE p \in { <<0, 0>>, <<1, 0>>, <<2, 0>>, <<3, 0>>, <<4, 0>>,
                     <<5, 1>>, <<5, 3>> } -> "floor"
          [] p = <<5, 0>> -> "key"
          [] p = <<5, 2>> -> "door"
          [] p = <<5, 4>> -> "exit"
          [] OTHER -> "wall" ]

\* the budget test_2_door_master_challenge gives the interpreter
door_master_budget == 2000

\* the arguments of VaultInterpreter(program_lines) and of
\* VaultRunner(world, start_pos, start_dir), before the interpreter is built
Inputs(lines, ext, w, pos, dir, budget, key_pos) ==
    /\ program = lines
    /\ tokens = << >>
    /\ extended = ext
    /\ max_instructions = budget
    /\ pc = 0
    /\ call_stack = << >>
    /\ flag = FALSE
    /\ instruction_count = 0
    /\ execution_history = << >>
    /\ wait_counter = 0
    /\ marks = << >>
    /\ saved_states = << >>
    /\ runner = [NewRunner(w, pos, dir) EXCEPT !.correct_key_pos = key_pos]
    /\ start_pos = pos
    /\ start_dir = dir
    /\ status = "new"
    /\ error = ""
    /\ ret = FALSE
    /\ result = FALSE
    /\ earlier = << >>

\* what the GUI holds when step execution is asked for: the text of the
\* editor, the world of the challenge, and the position and direction chosen
Editor(lines, w, pos, dir) ==
    /\ program = lines
    /\ tokens = << >>
    /\ extended = FALSE
    /\ max_instructions = step_max_instructions
    /\ pc = 0
    /\ call_stack = << >>
    /\ flag = FALSE
    /\ instruction_count = 0
    /\ execution_history = << >>
    /\ wait_counter = 0
    /\ marks = << >>
    /\ saved_states = << >>
    /\ runner = NewRunner(w, pos, dir)
    /\ start_pos = pos
    /\ start_dir = dir
    /\ status = "editor"
    /\ error = ""
    /\ ret = FALSE
    /\ result = FALSE
    /\ earlier = << >>

\* programs stepped through in the GUI; the last one never ends by itself
\* on a key tile
StepPrograms ==
    { simple_move, KeyDoorExit, NoPick,
      << tLOOP, Num(2), tMOVE, tEND, tPICK >>,
      << tWHILE, tFRONT, tMOVE, tEND >>,
      << tIF, tKEY, tPICK, tEND, tMOVE >>,
      << tLOOP, Num(2), tIF, tFRONT, tMOVE, tEND, tLEFT, tEND >>,
      << tLOOP, tMOVE, tEND >>, << tMOVE, tFRONT >>, << tMOVE, tLOOP >>,
      << tMOVE, tRTURN, tMOVE >>,
      << tWHILE, tKEY, tLEFT, tEND >> }

\* texts of the editor that are not one symbol a line
EditorTexts ==
    { << "# walk", "", "  move  ", "MOVE # twice", "   # done" >>,
      << "MOVE", "JUMP" >>, << "#", " " >> }

CorePrograms ==
    StraightPrograms \cup LoopPrograms \cup WhilePrograms \cup IfPrograms
    \cup NestedPrograms \cup OddPrograms

Init ==
    \/ \E toks \in CorePrograms, w \in Worlds, dir \in 0..3, b \in Budgets :
          \E pos \in StartCells(w) :
              Inputs(Source(toks), FALSE, w, pos, dir, b, no_attribute)
    \/ \E toks \in ShortPrograms, pos \in DOMAIN SimpleWorld :
          Inputs(Source(toks), FALSE, SimpleWorld, pos, 1, MaxInstructions,
                 no_attribute)
    \/ \E toks \in ExtendedPrograms, w \in { SimpleWorld, CorridorWorld(MaxK) },
          b \in Budgets :
          Inputs(Source(toks), TRUE, w, <<0, 0>>, 1, b, no_attribute)
    \/ \E toks \in GotoPrograms, dir \in 0..3 :
          Inputs(Source(toks), TRUE, FieldWorld, <<1, 1>>, dir, MaxInstructions,
                 no_attribute)
    \/ \E lines \in SourcePrograms, ext \in BOOLEAN :
          Inputs(lines, ext, SimpleWorld, <<0, 0>>, 1, MaxInstructions,
                 no_attribute)
    \/ \E toks \in WrittenPrograms, style \in Styles :
          Inputs(Written(Source(toks), style), FALSE, SimpleWorld, <<0, 0>>, 1,
                 MaxInstructions, no_attribute)
    \/ \E toks \in WrittenPrograms, style \in Styles, other \in OtherSymbols :
          \E k \in 1..(Len(toks) + 1) :
              Inputs(Written(InsertAt(Source(toks), k, other), style), FALSE,
                     SimpleWorld, <<0, 0>>, 1, MaxInstructions, no_attribute)
    \/ \E toks \in TwoKeyPrograms, key_pos \in { <<1, 0>>, <<2, 0>> },
          w \in { TwoKeyWorld, SimpleWorld } :
          Inputs(Source(toks), FALSE, w, <<0, 0>>, 1, MaxInstructions, key_pos)
    \/ Inputs(program1_corridor, FALSE, create_corridor_world, <<0, 0>>, 1,
              door_master_budget, no_attribute)
    \/ \E toks \in StepPrograms, w \in { SimpleWorld, CorridorWorld(MaxK) },
          pos \in { <<0, 0>>, <<1, 0>> }, dir \in { 0, 1 } :
          Editor(Source(toks), w, pos, dir)
    \/ \E lines \in EditorTexts :
          Editor(lines, SimpleWorld, <<0, 0>>, 1)

Spec == Init /\ [][Next]_vars

\* the runs whose progress is followed: every core program from (0,0) in
\* three of the worlds, the extended programs in the longest corridor, and
\* the programs stepped through in the GUI
FairInit ==
    \/ \E toks \in CorePrograms, dir \in 0..3, b \in Budgets,
          w \in { SimpleWorld, OpenWorld, CorridorWorld(MaxK) } :
          Inputs(Source(toks), FALSE, w, <<0, 0>>, dir, b, no_attribute)
    \/ \E toks \in ExtendedPrograms, b \in Budgets :
          Inputs(Source(toks), TRUE, CorridorWorld(MaxK), <<0, 0>>, 1, b,
                 no_attribute)
    \/ \E toks \in StepPrograms, w \in { SimpleWorld, CorridorWorld(MaxK) } :
          Editor(Source(toks), w, <<0, 0>>, 1)

\* run() is one synchronous call: once called, it keeps taking steps until
\* it ends
FairSpec == FairInit /\ [][Next]_vars /\ WF_vars(Step \/ BreakBudget \/ Return)

-----------------------------------------------------------------------------
(* Vocabulary of the properties *)

\* the run is over: run() returned or raised
Terminated == status \in { "returned", "raised" }

\* the cell i steps ahead of the start pose
Ahead(i) ==
    << start_pos[1] + i * directions[start_dir + 1][1],
       start_pos[2] + i * directions[start_dir + 1][2] >>

\* the END at index p closes an IF block
ClosesIf(toks, p) ==
    \E i \in 0..(p - 1) :
        TokenAt(toks, i).v = "IF" /\ find_matching_end(toks, i) = p

\* the last token dispatched
LastStep == execution_history[Len(execution_history)]

-----------------------------------------------------------------------------
(* C1: dispatching the END that closes an IF block is a no-op whatever is  *)
(* on the control stack: call_stack is unchanged and pc advances to the    *)
(* token after that END; and a frame is changed or removed only when the   *)
(* END at its own end index is dispatched.  The code acts on the top frame *)
(* at every END, so this is violated.                                      *)

C1_IfEndIsNoOp ==
    [][ /\ (Dispatching /\ token.v = "END" /\ ClosesIf(tokens, pc))
            => (call_stack' = call_stack /\ pc' = pc + 1)
        /\ (Dispatching /\ call_stack # << >> /\ call_stack' # call_stack
              /\ Len(call_stack') <= Len(call_stack))
            => (token.v = "END" /\ Top(call_stack).end_pc = pc)
      ]_vars

-----------------------------------------------------------------------------
(* C2: in the world {(0,0):floor,(1,0):key,(2,0):door,(3,0):exit}, from    *)
(* (0,0) facing East, MOVE,PICK,MOVE,OPEN,MOVE.                            *)

C2_Scenario ==
    /\ tokens = KeyDoorExit
    /\ runner.correct_key_pos = no_attribute
    /\ runner.original_world = SimpleWorld
    /\ start_pos = <<0, 0>>
    /\ start_dir = 1
    /\ max_instructions >= Len(KeyDoorExit)

\* C2 as stated: the run ends at (3,0), escaped through the exit
C2_EndsAtExit ==
    (C2_Scenario /\ Terminated)
        => /\ status = "returned"
           /\ <<runner.x, runner.y>> = <<3, 0>>
           /\ runner.has_key
           /\ runner.door_opened
           /\ runner.escaped
           /\ runner.escape_via = "exit"

\* C2 amended: the run ends on the door tile (2,0) as soon as OPEN has
\* opened the door: escaped through the door after four dispatches, the
\* last MOVE is never dispatched
C2_EndsAtOpenedDoor ==
    (C2_Scenario /\ Terminated)
        => /\ status = "returned"
           /\ result
           /\ <<runner.x, runner.y>> = <<2, 0>>
           /\ runner.has_key
           /\ runner.door_opened
           /\ runner.escaped
           /\ runner.escape_via = "door"
           /\ instruction_count = 4
           /\ pc = 4

C2_Witness ==
    C2_Scenario /\ status = "returned" /\ LastStep.token = tOPEN

-----------------------------------------------------------------------------
(* C3: escape.  After a dispatched instruction, a robot on an exit tile,   *)
(* or on a door tile with door_opened, is marked escaped (escape_via 'exit' *)
(* resp. 'door'), no further token is dispatched and run returns true; the *)
(* robot is never marked escaped anywhere else.                            *)

\* where check_escape marks the robot escaped
OnEscapeTile(r) == at_exit(r) \/ (at_door(r) /\ r.door_opened)

\* escaped only on an exit, or on an opened door, with escape_via telling
\* which, as long as the runner is the one the run left
EscapedOnlyThere ==
    status # "reset" =>
    /\ runner.escaped =>
          \/ at_exit(runner) /\ runner.escape_via = "exit"
          \/ at_door(runner) /\ runner.door_opened /\ runner.escape_via = "door"
    /\ ~runner.escaped => runner.escape_via = "None"

-----------------------------------------------------------------------------
(* C4: in every reachable state of run, instruction_count is at most       *)
(* max_instructions, and it is incremented exactly once per dispatched     *)
(* token, control tokens included: it counts the entries of                *)
(* execution_history, and every iteration let through adds one.            *)

C4_CountWithinBudget ==
    /\ [](/\ instruction_count <= max_instructions
          /\ instruction_count = Len(execution_history))
    /\ [][ /\ (status = "running" /\ pc < Len(tokens) /\ ~runner.escaped
                 /\ instruction_count < max_instructions)
              => instruction_count' = instruction_count + 1
           /\ (status = "running"
                 /\ ~(pc < Len(tokens) /\ ~runner.escaped
                        /\ instruction_count < max_instructions))
              => instruction_count' = instruction_count ]_vars

\* a control token was the dispatch that used the budget up
C4_Witness ==
    /\ status = "returned"
    /\ instruction_count = max_instructions
    /\ LastStep.token = tEND
    /\ ~runner.escaped
    /\ pc < Len(tokens)

-----------------------------------------------------------------------------
(* C5: every run() call terminates, after at most max_instructions         *)
(* dispatches: it returns (escaped, end of program, budget) or raises.     *)

C5_RunTerminates ==
    (status = "running") ~> (Terminated /\ instruction_count <= max_instructions)

\* WHILE FRONT / LEFT / END with a free cell on every side never ends by
\* itself: the budget ends it
C5_Witness ==
    /\ tokens = << tWHILE, tFRONT, tLEFT, tEND >>
    /\ status = "returned"
    /\ ~result
    /\ instruction_count = max_instructions
    /\ call_stack # << >>

-----------------------------------------------------------------------------
(* C6: for n >= 1 with 1 + 2n <= max_instructions, LOOP n / MOVE / END     *)
(* with the robot facing at least n consecutive non-wall, non-exit cells   *)
(* moves the robot exactly n cells in its heading and then completes with  *)
(* the control stack empty; the integer operand is never dispatched.       *)

\* the tile of the world the runner was constructed with
TileAtStart(pos) == Get(runner.original_world, pos, "absent")

C6_Scenario(n) ==
    /\ tokens = << tLOOP, Num(n), tMOVE, tEND >>
    /\ 1 + 2 * n <= max_instructions
    /\ \A i \in 1..n : TileAtStart(Ahead(i)) \notin { "absent", "wall", "exit" }

C6_Outcome(n) ==
    /\ \A i \in 1..Len(execution_history) : execution_history[i].token.v # "INT"
    /\ Terminated =>
          /\ status = "returned"
          /\ <<runner.x, runner.y>> = Ahead(n)
          /\ runner.direction = start_dir
          /\ Cardinality({ i \in 1..Len(execution_history) :
                             execution_history[i].token = tMOVE }) = n
          /\ pc = Len(tokens)
          /\ ~runner.escaped
          /\ call_stack = << >>

\* C6 as stated
C6_LoopMovesN ==
    \A n \in 1..(MaxN + 1) : C6_Scenario(n) => C6_Outcome(n)

\* C6 amended: provided the robot does not start on an exit tile.  From an
\* exit tile the first check_escape, after LOOP is dispatched, ends the run.
C6_LoopMovesNOffExit ==
    \A n \in 1..(MaxN + 1) :
        (C6_Scenario(n) /\ TileAtStart(start_pos) # "exit") => C6_Outcome(n)

C6_Witness ==
    /\ C6_Scenario(3)
    /\ TileAtStart(start_pos) # "exit"
    /\ status = "returned"
    /\ <<runner.x, runner.y>> = Ahead(3)

-----------------------------------------------------------------------------
(* C7: for k >= 0 within the budget, WHILE FRONT / MOVE / END with the     *)
(* robot facing a straight corridor of exactly k clear floor cells         *)
(* followed by a wall moves the robot exactly k times and halts with       *)
(* is_front_clear() false, escaped false and the control stack empty.      *)

\* the dispatches the run takes: WHILE, then MOVE END per cell and the
\* sensor token between two passes
C7_Dispatches(k) == IF k = 0 THEN 1 ELSE 3 * k

C7_Scenario(k) ==
    /\ tokens = << tWHILE, tFRONT, tMOVE, tEND >>
    /\ C7_Dispatches(k) <= max_instructions
    /\ \A i \in 1..k : TileAtStart(Ahead(i)) = "floor"
    /\ TileAtStart(Ahead(k + 1)) \in { "wall", "absent" }

C7_Outcome(k) ==
    Terminated =>
        /\ status = "returned"
        /\ <<runner.x, runner.y>> = Ahead(k)
        /\ Cardinality({ i \in 1..Len(execution_history) :
                           execution_history[i].token = tMOVE }) = k
        /\ ~is_front_clear(runner)
        /\ ~runner.escaped
        /\ ~result
        /\ call_stack = << >>
        /\ instruction_count = C7_Dispatches(k)

\* C7 as stated
C7_WhileFrontWalksCorridor ==
    \A k \in 0..(MaxK + 1) : C7_Scenario(k) => C7_Outcome(k)

\* C7 amended: provided the robot does not start on an exit tile
C7_WhileFrontWalksCorridorOffExit ==
    \A k \in 0..(MaxK + 1) :
        (C7_Scenario(k) /\ TileAtStart(start_pos) # "exit") => C7_Outcome(k)

C7_Witness ==
    /\ C7_Scenario(3)
    /\ TileAtStart(start_pos) # "exit"
    /\ status = "returned"
    /\ <<runner.x, runner.y>> = Ahead(3)

-----------------------------------------------------------------------------
(* C8: MOVE changes the position to position + delta(heading), North       *)
(* (0,+1), East (+1,0), South (0,-1), West (-1,0), if and only if the      *)
(* target cell is mapped and is not a wall; otherwise it returns False and *)
(* leaves the position unchanged.  MOVE never changes heading, has_key,    *)
(* door_opened or the world.                                               *)

Delta(d) ==
    CASE d = 0 -> <<0, 1>>
      [] d = 1 -> <<1, 0>>
      [] d = 2 -> <<0, -1>>
      [] d = 3 -> <<-1, 0>>

Target(r) == << r.x + Delta(r.direction)[1], r.y + Delta(r.direction)[2] >>

-----------------------------------------------------------------------------
(* C9: PICK in core mode (the runner has no correct_key_pos) succeeds iff   *)
(* the robot's tile is a key and has_key is false; then the tile becomes   *)
(* floor and has_key true; otherwise PICK changes nothing and raises no    *)
(* fault.  A second PICK on the same cell fails.                           *)

C9_Pick ==
    [][ (Dispatching /\ token.v = "PICK" /\ runner.correct_key_pos = no_attribute) =>
           LET here == <<runner.x, runner.y>>
               ok   == /\ here \in DOMAIN runner.world
                       /\ runner.world[here] = "key"
                       /\ ~runner.has_key
           IN  /\ status' # "raised"
               /\ ret' = ok
               /\ ok => /\ runner'.has_key
                        /\ runner'.world = [runner.world EXCEPT ![here] = "floor"]
               /\ ~ok => /\ runner'.has_key = runner.has_key
                         /\ runner'.world = runner.world
               /\ <<runner'.x, runner'.y>> = here
               /\ runner'.direction = runner.direction
               /\ runner'.door_opened = runner.door_opened
               /\ (\E i \in 1..Len(execution_history) :
                      /\ execution_history[i].token = tPICK
                      /\ execution_history[i].position = here)
                  => ~ret' ]_vars

\* a PICK took the key and the next PICK, on the same cell, failed
C9_Witness ==
    /\ runner.correct_key_pos = no_attribute
    /\ Len(execution_history) >= 2
    /\ LastStep.token = tPICK
    /\ execution_history[Len(execution_history) - 1].token = tPICK
    /\ execution_history[Len(execution_history) - 1].position = LastStep.position
    /\ ~execution_history[Len(execution_history) - 1].has_key
    /\ LastStep.has_key
    /\ runner.world[LastStep.position] = "floor"
    /\ ~ret

-----------------------------------------------------------------------------
(* C10: OPEN succeeds iff the robot's tile is a door and has_key is true;  *)
(* then door_opened becomes true, has_key stays true and the door tile is  *)
(* unchanged; otherwise OPEN changes nothing and raises no fault.          *)

C10_Open ==
    [][ (Dispatching /\ token.v = "OPEN") =>
           LET here == <<runner.x, runner.y>>
               ok   == /\ here \in DOMAIN runner.world
                       /\ runner.world[here] = "door"
                       /\ runner.has_key
           IN  /\ status' # "raised"
               /\ ret' = ok
               /\ ok => runner'.door_opened
               /\ ~ok => runner'.door_opened = runner.door_opened
               /\ runner'.has_key = runner.has_key
               /\ runner'.world = runner.world
               /\ <<runner'.x, runner'.y>> = here
               /\ runner'.direction = runner.direction ]_vars

\* an OPEN has just opened the door: the key is kept, the tile is a door
C10_Witness ==
    /\ execution_history # << >>
    /\ LastStep.token = tOPEN
    /\ ~LastStep.door_opened
    /\ ret
    /\ runner.door_opened
    /\ runner.has_key
    /\ runner.world[<<runner.x, runner.y>>] = "door"

-----------------------------------------------------------------------------
(* C11: in the world {(0,0):floor,(1,0):key,(2,0):door,(3,0):exit}, from   *)
(* (0,0) facing East, MOVE,MOVE,OPEN,MOVE (no PICK) leaves door_opened     *)
(* false (OPEN is a no-op), yet the robot walks across the closed door     *)
(* tile, reaches (3,0) and escapes through the exit with has_key false.    *)

C11_Scenario ==
    /\ tokens = NoPick
    /\ runner.original_world = SimpleWorld
    /\ start_pos = <<0, 0>>
    /\ start_dir = 1
    /\ max_instructions >= Len(NoPick)

C11_CrossesClosedDoor ==
    (C11_Scenario /\ Terminated)
        => /\ status = "returned"
           /\ result
           /\ instruction_count = 4
           /\ execution_history[3].token = tOPEN
           /\ execution_history[3].position = <<2, 0>>
           /\ execution_history[4].position = <<2, 0>>
           /\ ~execution_history[4].door_opened
           /\ <<runner.x, runner.y>> = <<3, 0>>
           /\ ~runner.door_opened
           /\ ~runner.has_key
           /\ runner.world = SimpleWorld
           /\ runner.escaped
           /\ runner.escape_via = "exit"

C11_Witness ==
    /\ C11_Scenario
    /\ status = "returned"
    /\ LastStep.token = tMOVE
    /\ LastStep.position = <<2, 0>>
    /\ runner.escaped

-----------------------------------------------------------------------------
(* C12: determinism.  For a program that contains no RTURN, two runs       *)
(* started from equal worlds and equal robot states, each with a fresh     *)
(* interpreter and runner, pass through the same sequence of states and    *)
(* end with identical position, heading, has_key, door_opened, escaped,    *)
(* escape_via, world and instruction_count: a fresh interpreter and runner *)
(* are a function of the arguments they are built from, and every state    *)
(* has at most one successor.                                              *)

HasRturn == \E i \in 1..Len(tokens) : tokens[i] = tRTURN

\* the interpreter and the runner as they are when run() is called
Fresh ==
    /\ pc = 0
    /\ call_stack = << >>
    /\ flag = FALSE
    /\ instruction_count = 0
    /\ execution_history = << >>
    /\ wait_counter = 0
    /\ runner = [NewRunner(runner.original_world, start_pos, start_dir)
                   EXCEPT !.correct_key_pos = runner.correct_key_pos]

\* the steps of a constructed interpreter: run() is called, run() proceeds
RunStep == Run \/ Step \/ BreakBudget \/ Return

C12_Deterministic ==
    /\ [](status \in { "new", "constructed" } => Fresh)
    /\ [][ (status # "new" /\ ~HasRturn) =>
             \A successor \in { vars' } : ~ENABLED (RunStep /\ vars' # successor)
         ]_vars

\* a run without RTURN that moved the robot, changed the world and ended
C12_Witness ==
    /\ ~HasRturn
    /\ status = "returned"
    /\ instruction_count >= 4
    /\ runner.world # runner.original_world
    /\ <<runner.x, runner.y>> # start_pos

-----------------------------------------------------------------------------
(* C13: a program that needs more dispatches than the budget and never     *)
(* escapes, such as LOOP n / MOVE / END with 1 + 2n > max_instructions in  *)
(* a world with no exit and no door, halts without a fault, with escaped   *)
(* false and instruction_count exactly max_instructions.                   *)

\* no tile of the world lets the robot escape
NoWayOut(w) == \A p \in DOMAIN w : w[p] \notin { "exit", "door" }

C13_Scenario(n) ==
    /\ tokens = << tLOOP, Num(n), tMOVE, tEND >>
    /\ 1 + 2 * n > max_instructions
    /\ NoWayOut(runner.original_world)

\* run() returned while the while condition still held
CutOff ==
    /\ status = "returned"
    /\ pc < Len(tokens)
    /\ ~runner.escaped

C13_BudgetHalt ==
    /\ [](/\ \A n \in 1..(MaxN + 1) :
               (C13_Scenario(n) /\ Terminated) => CutOff
          /\ CutOff => /\ instruction_count = max_instructions
                       /\ ~result
                       /\ error = "")
    /\ [][ (status = "running" /\ pc < Len(tokens) /\ ~runner.escaped
              /\ instruction_count >= max_instructions)
             => (CutOff' /\ UNCHANGED << runner, instruction_count, pc >>) ]_vars

C13_Witness ==
    /\ C13_Scenario(3)
    /\ CutOff
    /\ instruction_count = max_instructions
    /\ <<runner.x, runner.y>> # start_pos

-----------------------------------------------------------------------------
(* C14: a run halted by the budget ends with escaped false, and at the end *)
(* of a run instruction_count = max_instructions holds if and only if the  *)
(* run was cut off by the budget (it neither escaped nor reached the end   *)
(* of the token sequence).                                                 *)

\* C14 as stated
C14_CounterTellsCutOff ==
    status = "returned" =>
        /\ CutOff => ~result
        /\ (instruction_count = max_instructions) <=> CutOff

\* C14 amended: the counter is necessary, not sufficient.  A run cut off by
\* the budget ends with instruction_count = max_instructions; a run that
\* escapes or reaches the end of its tokens on the dispatch that uses the
\* budget up ends with the same count, and pc and escaped tell them apart.
C14_CutOffOnlyAtBudget ==
    status = "returned" =>
        /\ CutOff => (~result /\ instruction_count = max_instructions)
        /\ instruction_count < max_instructions
              => (runner.escaped \/ pc >= Len(tokens))
        /\ (instruction_count = max_instructions /\ ~CutOff)
              => /\ runner.escaped \/ pc >= Len(tokens)
                 /\ Len(execution_history) = max_instructions

\* the program ended by itself on the dispatch that used the budget up
C14_Witness ==
    /\ status = "returned"
    /\ instruction_count = max_instructions
    /\ pc = Len(tokens)
    /\ ~runner.escaped
    /\ call_stack = << >>

-----------------------------------------------------------------------------
(* C15: constructing an interpreter from a program that contains a LOOP,   *)
(* WHILE or IF with no matching END fails with SyntaxError at construction *)
(* time, before any run is attempted: no interpreter exists whose tokens   *)
(* hold an unmatched block.  The constructor only tokenizes, so this is    *)
(* violated.                                                               *)

\* some LOOP, WHILE or IF of the token sequence has no matching END
HasUnmatchedBlock(toks) ==
    \E i \in 0..(Len(toks) - 1) :
        TokenAt(toks, i).v \in Openers /\ find_matching_end(toks, i) = -1

C15_UnmatchedRejectedAtConstruction ==
    status \in { "constructed", "running", "returned", "raised" }
        => ~HasUnmatchedBlock(tokens)

-----------------------------------------------------------------------------
(* C16: for every program that contains a LOOP, WHILE or IF with no        *)
(* matching END, constructing the interpreter and then running it raises   *)
(* SyntaxError, for any world and any start pose: the run never completes  *)
(* or escapes silently.  The block is only looked for when its opening     *)
(* token is dispatched, so this is violated.                               *)

C16_UnmatchedRunRaises ==
    (HasUnmatchedBlock(tokens) /\ Terminated)
        => (status = "raised" /\ error = "SyntaxError")

-----------------------------------------------------------------------------
(* C17: a sensor token (FRONT, KEY, DOOR, EXIT) dispatched as an           *)
(* instruction in its own right, that is, one that is not the operand      *)
(* right after an IF or a WHILE, raises RuntimeError and aborts the run at *)
(* once, wherever in the program it occurs (top level or inside any LOOP,  *)
(* WHILE or IF body).  The code lets it through whenever a WHILE frame is  *)
(* on top of the control stack, so this is violated.                       *)

\* the token at index p is the operand of an IF or a WHILE
IsSensorOperand(toks, p) ==
    p > 0 /\ TokenAt(toks, p - 1).v \in { "IF", "WHILE" }

C17_BareSensorRaises ==
    [][ (Dispatching /\ token.v \in Sensors /\ ~IsSensorOperand(tokens, pc))
          => /\ status' = "raised"
             /\ error' = "RuntimeError"
             /\ runner' = runner ]_vars

-----------------------------------------------------------------------------
(* C18: tokenization.  For source lines made only of recognized keywords,  *)
(* sensors and non-negative integer literals, in any letter case, with any *)
(* indentation, blank lines and '#' comments, construction succeeds and    *)
(* tokens is exactly those symbols in source order (keywords upper-cased,  *)
(* integers as ints), so len(tokens) equals their count; if any other      *)
(* symbol appears outside a comment, construction fails with SyntaxError.  *)
(* A symbol str.isdigit() accepts and int() refuses fails with ValueError, *)
(* so this is violated.                                                    *)

\* sources made of recognized symbols only, with the symbols they hold
C18_Valid ==
    { [lines |-> Written(Source(toks), style), symbols |-> toks] :
          toks \in WrittenPrograms, style \in Styles }
    \cup { [lines |-> << "move 007 left" >>, symbols |-> << tMOVE, Num(7), tLEFT >>] }

\* sources with one other symbol outside a comment
C18_Invalid ==
    UNION { { Written(InsertAt(Source(toks), k, other), style) :
                style \in Styles, other \in OtherSymbols, k \in 1..(Len(toks) + 1) } :
            toks \in WrittenPrograms }

C18_Tokenization ==
    [][ (status = "new" /\ ~extended) =>
           /\ \A c \in C18_Valid :
                 program = c.lines
                    => /\ status' = "constructed"
                       /\ tokens' = c.symbols
                       /\ Len(tokens') = Len(c.symbols)
           /\ \A lines \in C18_Invalid :
                 program = lines
                    => /\ status' = "rejected"
                       /\ error' = "SyntaxError" ]_vars

-----------------------------------------------------------------------------
(* C19: construction fails with SyntaxError whenever a program of          *)
(* recognized symbols uses more than 20 distinct non-integer token strings *)
(* (integer literals never count), for VaultInterpreter and for            *)
(* ExtendedVaultInterpreter; so every interpreter that was constructed has *)
(* get_distinct_token_count() <= 20.                                       *)

\* the symbols of the source lines, in order
RECURSIVE SourceSymbols(_)
SourceSymbols(lines) ==
    IF lines = << >> THEN << >>
    ELSE split(upper(Head(lines))) \o SourceSymbols(Tail(lines))

IsInteger(symbol) == symbol # "" /\ int_accepts(symbol)

\* every symbol is a keyword of the language or of its extensions, or an
\* integer literal, and more than 20 distinct ones are not integers
OverTheLimit(lines) ==
    LET symbols == SourceSymbols(lines)
        words   == { symbols[i] : i \in { j \in 1..Len(symbols) : ~IsInteger(symbols[j]) } }
    IN  /\ words \subseteq (valid_keywords \cup extended_keywords)
        /\ Cardinality(words) > MaxDistinctTokens

C19_TokenLimit ==
    /\ [](status \in { "constructed", "running", "returned", "raised" }
             => get_distinct_token_count(tokens) <= MaxDistinctTokens)
    /\ [][ (status = "new" /\ OverTheLimit(program))
             => (status' = "rejected" /\ error' = "SyntaxError") ]_vars

\* 21 keywords the extended tokenizer knows: refused for their number alone
C19_Witness ==
    /\ extended
    /\ program = SubSeq(extension_token_limit, 1, MaxDistinctTokens + 1)
    /\ OverTheLimit(program)
    /\ status = "rejected"
    /\ error = "SyntaxError"

-----------------------------------------------------------------------------
(* C20: in the single-correct-key mode (the runner has correct_key_pos),   *)
(* PICK on a key tile that is not the designated coordinate makes the tile *)
(* floor and leaves has_key false; PICK on the key tile at the designated  *)
(* coordinate makes the tile floor and sets has_key.                       *)

C20_WrongKeyTaken ==
    [][ (/\ Dispatching
         /\ token.v = "PICK"
         /\ runner.correct_key_pos # no_attribute
         /\ <<runner.x, runner.y>> \in DOMAIN runner.world
         /\ runner.world[<<runner.x, runner.y>>] = "key"
         /\ ~runner.has_key) =>
           LET here == <<runner.x, runner.y>>
           IN  /\ status' # "raised"
               /\ runner'.world = [runner.world EXCEPT ![here] = "floor"]
               /\ runner'.has_key = (here = runner.correct_key_pos) ]_vars

-----------------------------------------------------------------------------
(* C21: at the start of every run() call on a VaultInterpreter pc = 0, the *)
(* control stack is empty, flag is false and instruction_count = 0,        *)
(* however an earlier run on the interpreter ended, and tokens is          *)
(* unchanged; so a reused interpreter run on an equal fresh runner ends as *)
(* its first run did (programs without RTURN).                             *)

C21_RunStartsFresh ==
    /\ [][ (status # "running" /\ status' = "running") =>
              /\ pc' = 0
              /\ call_stack' = << >>
              /\ flag' = FALSE
              /\ instruction_count' = 0
              /\ tokens' = tokens ]_vars
    /\ [](( /\ ~extended
            /\ ~HasRturn
            /\ Terminated
            /\ earlier # << >>
            /\ earlier[1].status # "stepped" ) => Outcome = earlier[1])

\* a second run after a first one that raised with a frame on the stack and
\* the counter above zero
C21_Witness ==
    /\ ~extended
    /\ ~HasRturn
    /\ earlier # << >>
    /\ earlier[1].status = "raised"
    /\ earlier[1].instruction_count > 1
    /\ tokens = << tLOOP, Num(2), tFRONT, tEND >>
    /\ status = "raised"
    /\ call_stack # << >>

-----------------------------------------------------------------------------
(* C22: after any sequence of actions (successful PICKs included),         *)
(* VaultRunner.reset() makes the runner's world equal to the world map the *)
(* runner was constructed with and clears has_key, door_opened and         *)
(* escaped.                                                                *)

\* a PICK of the run took the key of the tile it stood on
PickedAt(pos) ==
    \E i \in 1..(Len(execution_history) - 1) :
        /\ execution_history[i].token = tPICK
        /\ execution_history[i].position = pos
        /\ ~execution_history[i].has_key
        /\ execution_history[i + 1].has_key

C22_ResetRestoresWorld ==
    /\ [](status = "new" => runner.original_world = runner.world)
    /\ [][ /\ runner'.original_world = runner.original_world
           /\ (status # "reset" /\ status' = "reset") =>
                 /\ runner'.world = runner.original_world
                 /\ ~runner'.has_key
                 /\ ~runner'.door_opened
                 /\ ~runner'.escaped ]_vars

\* reset after a run that took the key at (1,0), opened the door and escaped
C22_Witness ==
    /\ status = "reset"
    /\ PickedAt(<<1, 0>>)
    /\ earlier # << >>
    /\ LastStep.token = tOPEN
    /\ LastStep.position = <<2, 0>>
    /\ LastStep.has_key
    /\ result
    /\ runner.world = SimpleWorld
    /\ runner.world[<<1, 0>>] = "key"
    /\ ~runner.has_key /\ ~runner.door_opened /\ ~runner.escaped

-----------------------------------------------------------------------------
(* C23: a MOVE whose target coordinate is absent from the world map moves  *)
(* the robot into that cell: MOVE, MOVE, LEFT, MOVE from (0,0) facing East *)
(* in the world of test_simple_program_execution, where (2,1) is not       *)
(* mapped, ends at (2,1) facing North.                                     *)

C23_Scenario ==
    /\ tokens = simple_move
    /\ runner.original_world = TestWorld
    /\ start_pos = <<0, 0>>
    /\ start_dir = 1
    /\ max_instructions >= Len(simple_move)

C23_MoveIntoAbsentCell ==
    /\ []((C23_Scenario /\ Terminated)
             => /\ status = "returned"
                /\ <<runner.x, runner.y>> = <<2, 1>>
                /\ runner.direction = 0)
    /\ [][ (/\ Dispatching
            /\ token.v = "MOVE"
            /\ get_front_position(runner) \notin DOMAIN runner.world)
              => <<runner'.x, runner'.y>> = get_front_position(runner) ]_vars

-----------------------------------------------------------------------------
(* C24: running program1_corridor on create_corridor_world() from (0,0)    *)
(* facing East with max_instructions = 2000 returns true with escaped,     *)
(* has_key and door_opened all true, and instruction_count < 2000.         *)

C24_Scenario ==
    /\ program = program1_corridor
    /\ runner.original_world = create_corridor_world
    /\ start_pos = <<0, 0>>
    /\ start_dir = 1
    /\ max_instructions = door_master_budget

C24_DoorMaster ==
    (C24_Scenario /\ Terminated)
        => /\ status = "returned"
           /\ result
           /\ runner.escaped
           /\ runner.has_key
           /\ runner.door_opened
           /\ instruction_count < door_master_budget

-----------------------------------------------------------------------------
(* C25: LOOP n (n >= 1) repeats its whole body n times even when the body  *)
(* contains an IF block: in LOOP n / IF s / A / END / B / END with the     *)
(* sensor s true on every pass (no escape, within budget), A and B are     *)
(* both executed exactly n times, in the order A, B, A, B, ...             *)

LoopIfProgram(n, s, A, B) == << tLOOP, Num(n), tIF, s, A, tEND, B, tEND >>

\* the sensor s was true when the step h was recorded; the walls, doors
\* and exits of the world never change, and no key is gone while has_key
\* is false
TrueAt(h, s) ==
    /\ evaluate_sensor([runner EXCEPT !.x = h.position[1], !.y = h.position[2],
                                      !.direction = h.direction,
                                      !.world = runner.original_world], s)
    /\ s = tKEY => ~h.has_key

\* the step dispatched A (index 4) or B (index 6)
IsBodyStep(h) == h.pc \in { 4, 6 }

\* A, B, A, B, ... : n times the two of them
Alternates(steps, n) ==
    /\ Len(steps) = 2 * n
    /\ \A i \in 1..Len(steps) : steps[i].pc = IF i % 2 = 1 THEN 4 ELSE 6

C25_LoopRepeatsWholeBody ==
    (status = "returned" /\ ~runner.escaped /\ ~CutOff /\ Len(tokens) = 8) =>
        \A n \in 1..MaxN, s \in SensorTokens, A \in ActionTokens, B \in ActionTokens :
            ( /\ tokens = LoopIfProgram(n, s, A, B)
              /\ \A i \in 1..Len(execution_history) :
                    execution_history[i].pc = 2 => TrueAt(execution_history[i], s) )
            => Alternates(SelectSeq(execution_history, IsBodyStep), n)

-----------------------------------------------------------------------------
(* C26: when END is dispatched with a WHILE frame on top of the stack and  *)
(* the frame's sensor is true, control jumps back to start_index so that   *)
(* the next token dispatched is the WHILE token itself, which runs its     *)
(* evaluate-and-branch logic again; the stack still holds exactly one      *)
(* frame for that WHILE afterwards.                                        *)

\* END is about to be dispatched on a WHILE frame whose sensor is true
EndRepeatsWhile ==
    /\ Dispatching
    /\ token.v = "END"
    /\ call_stack # << >>
    /\ Top(call_stack).type = "WHILE"
    /\ evaluate_sensor(runner, Top(call_stack).data)

\* the number of frames of the stack for the WHILE at index start_pc
FramesOf(stk, start_pc) ==
    Cardinality({ i \in 1..Len(stk) :
                    stk[i].type = "WHILE" /\ stk[i].start_pc = start_pc })

\* C26 as stated: the next token to dispatch is the WHILE
C26_EndReentersWhile ==
    [][ EndRepeatsWhile =>
           /\ pc' = Top(call_stack).start_pc
           /\ TokenAt(tokens, pc') = tWHILE
           /\ FramesOf(call_stack', Top(call_stack).start_pc) = 1 ]_vars

\* C26 amended: the next token to dispatch is the sensor operand of the
\* WHILE, at start_index + 1; END itself has tested the sensor, the WHILE is
\* not dispatched again and the operand is passed over without effect
C26_EndReturnsToOperand ==
    /\ [][ EndRepeatsWhile =>
              /\ pc' = Top(call_stack).start_pc + 1
              /\ TokenAt(tokens, pc' - 1) = tWHILE
              /\ TokenAt(tokens, pc') = Top(call_stack).data
              /\ call_stack' = call_stack
              /\ FramesOf(call_stack', Top(call_stack).start_pc) = 1
              /\ runner' = runner
              /\ status' = status ]_vars
    /\ [][ (/\ Dispatching
            /\ call_stack # << >>
            /\ Top(call_stack).type = "WHILE"
            /\ pc = Top(call_stack).start_pc + 1) =>
              /\ pc' = pc + 1
              /\ call_stack' = call_stack
              /\ runner' = runner
              /\ status' = status ]_vars

\* the operand was dispatched after an END, and the body is next
C26_Witness ==
    /\ status = "running"
    /\ Len(execution_history) >= 2
    /\ LastStep.token \in SensorTokens
    /\ execution_history[Len(execution_history) - 1].token = tEND
    /\ call_stack # << >>
    /\ Top(call_stack).type = "WHILE"
    /\ FramesOf(call_stack, Top(call_stack).start_pc) = 1
    /\ pc = Top(call_stack).start_pc + 2

-----------------------------------------------------------------------------
(* C27: when the sensor of an IF or WHILE is false at the opener, control  *)
(* continues at the token after the matching END: no token of the body,    *)
(* nor the matching END, is dispatched, no frame is pushed, and robot and  *)
(* world are unchanged.  In particular IF KEY / PICK / END run while not   *)
(* standing on a key leaves has_key false and world and position           *)
(* unchanged.  (The escape check that follows every dispatch still marks a *)
(* robot that stands on an exit tile as escaped.)                          *)

\* openers minus ENDs among the tokens p..e
Balance(toks, p, e) ==
    Cardinality({ i \in p..e : TokenAt(toks, i).v \in Openers })
    - Cardinality({ i \in p..e : TokenAt(toks, i).v = "END" })

\* e is the END that closes the block opened at p
Matches(toks, p, e) ==
    /\ e \in (p + 1)..(Len(toks) - 1)
    /\ Balance(toks, p, e) = 0
    /\ \A i \in p..(e - 1) : Balance(toks, p, i) > 0

\* an IF or WHILE with a sensor operand is about to be dispatched
AtOpener ==
    /\ Dispatching
    /\ token.v \in { "IF", "WHILE" }
    /\ pc + 1 < Len(tokens)
    /\ TokenAt(tokens, pc + 1).v \in Sensors

-----------------------------------------------------------------------------
(* C28: in every reachable state of a run the control stack holds only     *)
(* LOOP and WHILE frames (never an IF frame), at most one frame per        *)
(* opener, and each frame belongs to a LOOP/WHILE block that lexically     *)
(* encloses the current pc; hence the stack is never deeper than the       *)
(* lexical LOOP/WHILE nesting at pc, nor than                              *)
(* analyze_program()['max_nesting_depth'].                                 *)

\* the index of the token that pushed the frame
OpenerOf(frame) == IF frame.type = "LOOP" THEN frame.start_pc - 2 ELSE frame.start_pc

\* the frame is the one of a LOOP/WHILE block around index p
Encloses(toks, frame, p) ==
    /\ frame.type \in { "LOOP", "WHILE" }
    /\ OpenerOf(frame) \in 0..(Len(toks) - 1)
    /\ TokenAt(toks, OpenerOf(frame)).v = frame.type
    /\ Matches(toks, OpenerOf(frame), frame.end_pc)
    /\ OpenerOf(frame) < p
    /\ p <= frame.end_pc

\* the number of LOOP/WHILE blocks around index p
NestingAt(toks, p) ==
    Cardinality({ i \in 0..(Len(toks) - 1) :
                    /\ TokenAt(toks, i).v \in { "LOOP", "WHILE" }
                    /\ i < p
                    /\ \E e \in p..(Len(toks) - 1) : Matches(toks, i, e) })

InRun == status \in { "running", "returned", "raised" }

\* frames, each of a block around pc, no two of one opener
FramesEnclosePc ==
    /\ \A i \in 1..Len(call_stack) : Encloses(tokens, call_stack[i], pc)
    /\ \A i, j \in 1..Len(call_stack) :
          OpenerOf(call_stack[i]) = OpenerOf(call_stack[j]) => i = j
    /\ Len(call_stack) <= NestingAt(tokens, pc)

C28_StackWithinNesting ==
    InRun => /\ FramesEnclosePc
             /\ Len(call_stack) <= max_nesting_depth(tokens)

-----------------------------------------------------------------------------
(* C29: LOOP 0 executes its body exactly once, identically to LOOP 1: the  *)
(* remaining count is only tested after the decrement at END, so the       *)
(* number of body executions of LOOP n is max(n, 1).                       *)

\* the indices dispatched by a run of LOOP n / A / END that goes k times
\* round: LOOP, then k times A and END
RECURSIVE Rounds(_)
Rounds(k) == IF k = 0 THEN << 0 >> ELSE Rounds(k - 1) \o << 2, 3 >>

Dispatched == [ i \in 1..Len(execution_history) |-> execution_history[i].pc ]

IsPrefix(s, t) == Len(s) <= Len(t) /\ s = SubSeq(t, 1, Len(s))

C29_LoopZeroRunsOnce ==
    (InRun /\ Len(tokens) = 4) =>
        \A n \in 0..MaxN, A \in ActionTokens :
            tokens = << tLOOP, Num(n), A, tEND >> =>
                LET k == IF n > 1 THEN n ELSE 1
                IN  /\ IsPrefix(Dispatched, Rounds(k))
                    /\ (status = "returned" /\ ~runner.escaped /\ ~CutOff)
                          => Dispatched = Rounds(k)

\* LOOP 0 / MOVE / END ran to its end: MOVE was dispatched once and moved
\* the robot one cell
C29_Witness ==
    /\ tokens = << tLOOP, Num(0), tMOVE, tEND >>
    /\ status = "returned"
    /\ ~runner.escaped
    /\ ~CutOff
    /\ Dispatched = << 0, 2, 3 >>
    /\ call_stack = << >>
    /\ <<runner.x, runner.y>> = Ahead(1)

-----------------------------------------------------------------------------
(* C30: the heading stays in {0,1,2,3}; LEFT sets it to (heading-1) mod 4  *)
(* and RIGHT to (heading+1) mod 4, so LEFT then RIGHT (or RIGHT then LEFT) *)
(* restores the heading and four equal turns are the identity; RTURN gives *)
(* one of the two headings LEFT or RIGHT would give; no turn changes       *)
(* position, inventory or world.                                           *)

Turns == { "LEFT", "RIGHT", "RTURN" }

\* the heading after the i-th dispatch of the run
HeadingAfter(i) ==
    IF i < Len(execution_history) THEN execution_history[i + 1].direction
    ELSE runner.direction

\* the dispatches i..j of the run were the tokens ts, in this order
DispatchedAt(i, ts) ==
    /\ i + Len(ts) - 1 <= Len(execution_history)
    /\ \A k \in 1..Len(ts) : execution_history[i + k - 1].token = ts[k]

C30_Turns ==
    /\ [](runner.direction \in 0..3)
    /\ [](InRun =>
            \A i \in 1..Len(execution_history) :
                LET before == execution_history[i].direction
                IN  /\ DispatchedAt(i, << tLEFT, tRIGHT >>) => HeadingAfter(i + 1) = before
                    /\ DispatchedAt(i, << tRIGHT, tLEFT >>) => HeadingAfter(i + 1) = before
                    /\ DispatchedAt(i, << tLEFT, tLEFT, tLEFT, tLEFT >>)
                          => HeadingAfter(i + 3) = before
                    /\ DispatchedAt(i, << tRIGHT, tRIGHT, tRIGHT, tRIGHT >>)
                          => HeadingAfter(i + 3) = before)
    /\ [][ (Dispatching /\ token.v \in Turns) =>
              /\ token.v = "LEFT"  => runner'.direction = (runner.direction - 1) % 4
              /\ token.v = "RIGHT" => runner'.direction = (runner.direction + 1) % 4
              /\ token.v = "RTURN" =>
                    runner'.direction \in { (runner.direction - 1) % 4,
                                           (runner.direction + 1) % 4 }
              /\ runner'.x = runner.x /\ runner'.y = runner.y
              /\ runner'.has_key = runner.has_key
              /\ runner'.door_opened = runner.door_opened
              /\ runner'.world = runner.world
              /\ status' = status ]_vars

\* four LEFTs from North, by way of West, South and East, and four RIGHTs
\* after them
C30_Witness ==
    /\ status = "returned"
    /\ Len(tokens) = 12
    /\ DispatchedAt(5, << tLEFT, tLEFT, tLEFT, tLEFT >>)
    /\ DispatchedAt(9, << tRIGHT, tRIGHT, tRIGHT, tRIGHT >>)
    /\ execution_history[5].direction = 0
    /\ execution_history[6].direction = 3
    /\ execution_history[7].direction = 2
    /\ execution_history[8].direction = 1
    /\ execution_history[9].direction = 0
    /\ execution_history[10].direction = 1
    /\ runner.direction = 0
    /\ <<runner.x, runner.y>> = start_pos

-----------------------------------------------------------------------------
(* C31: every run-time failure of run() is a RuntimeError or a             *)
(* SyntaxError: for every program the tokenizer accepts, LOOP followed by  *)
(* a non-integer token and LOOP/IF/WHILE as the last token included, a run *)
(* ends normally or aborts with one of those two error kinds and no other. *)

C31_OnlyRuntimeOrSyntaxError ==
    status = "raised" => error \in { "RuntimeError", "SyntaxError" }

-----------------------------------------------------------------------------
(* C32: if the robot starts on a mapped non-wall cell, then in every       *)
(* reachable state of a core-language run its position is a mapped         *)
(* non-wall cell: no sequence of MOVE/LEFT/RIGHT/RTURN/PICK/OPEN ever      *)
(* places it on a wall tile or on a coordinate absent from the world map.  *)

\* the cell is in the map and is not a wall
MappedNonWall(w, pos) == pos \in DOMAIN w /\ w[pos] # "wall"

-----------------------------------------------------------------------------
(* C33: in every reachable state of a core-language run started with       *)
(* has_key=false and door_opened=false, door_opened implies has_key, and   *)
(* neither has_key nor door_opened ever changes from true back to false.   *)

C33_KeyAndDoorMonotone ==
    /\ []( (~extended /\ status # "reset")
             => (runner.door_opened => runner.has_key) )
    /\ [][ (~extended /\ status = "running")
             => /\ runner.has_key => runner'.has_key
                /\ runner.door_opened => runner'.door_opened ]_vars

\* the key was picked, kept over at least one other dispatch, and the door
\* was opened with it
C33_Witness ==
    /\ ~extended
    /\ Terminated
    /\ runner.has_key
    /\ runner.door_opened
    /\ LastStep.token = tOPEN
    /\ LastStep.has_key
    /\ ~LastStep.door_opened
    /\ \E i \in 1..(Len(execution_history) - 2) :
          /\ execution_history[i].token = tPICK
          /\ ~execution_history[i].has_key
          /\ execution_history[i + 1].has_key

-----------------------------------------------------------------------------
(* C34: during a core-language run the only change ever made to the        *)
(* runner's world is a successful PICK turning the key tile under the      *)
(* robot into floor: every other instruction leaves the world unchanged,   *)
(* the set of mapped coordinates is constant, the number of key tiles      *)
(* never increases, and the caller-supplied world_map and                  *)
(* runner.original_world are never mutated.                                *)

\* the key tiles of a world
KeyTiles(w) == { p \in DOMAIN w : w[p] = "key" }

\* the step is a PICK that took the key from under the robot
SuccessfulPick ==
    /\ token = tPICK
    /\ ~runner.has_key
    /\ runner'.has_key
    /\ ret'
    /\ Get(runner.world, <<runner.x, runner.y>>, "floor") = "key"
    /\ <<runner'.x, runner'.y>> = <<runner.x, runner.y>>
    /\ runner'.world = [runner.world EXCEPT ![<<runner.x, runner.y>>] = "floor"]

\* world_map.copy() is taken twice at construction and only self.world is
\* written afterwards, so original_world stands for the caller's map too
C34_OnlyPickChangesWorld ==
    /\ [][ (~extended /\ status = "running")
             => /\ runner'.world # runner.world => SuccessfulPick
                /\ DOMAIN runner'.world = DOMAIN runner.world
                /\ Cardinality(KeyTiles(runner'.world))
                     <= Cardinality(KeyTiles(runner.world)) ]_vars
    /\ [][ runner'.original_world = runner.original_world ]_vars

\* a key has just been picked: the world differs from the original one in
\* the tile under the robot and nowhere else
C34_Witness ==
    /\ ~extended
    /\ status = "running"
    /\ execution_history # << >>
    /\ LastStep.token = tPICK
    /\ ~LastStep.has_key
    /\ runner.has_key
    /\ runner.original_world[<<runner.x, runner.y>>] = "key"
    /\ runner.world
         = [runner.original_world EXCEPT ![<<runner.x, runner.y>>] = "floor"]
    /\ Cardinality(KeyTiles(runner.world))
         = Cardinality(KeyTiles(runner.original_world)) - 1

-----------------------------------------------------------------------------
(* C36: VaultRunner.reset() restores the robot to its initial state: after *)
(* reset the runner's position and heading equal the start_pos and         *)
(* start_dir it was constructed with, and has_key, door_opened, escaped    *)
(* and escape_via equal their post-construction values (False, False,      *)
(* False, None).                                                           *)

C36_ResetRestoresRobot ==
    status = "reset"
    => /\ <<runner.x, runner.y>> = start_pos
       /\ runner.direction = start_dir
       /\ ~runner.has_key
       /\ ~runner.door_opened
       /\ ~runner.escaped
       /\ runner.escape_via = "None"

-----------------------------------------------------------------------------
(* C35: in ExtendedVaultInterpreter, dispatching WAIT N when no wait is    *)
(* pending pauses execution for N steps: the same WAIT token is            *)
(* re-dispatched N further times with pc unchanged (each counted in        *)
(* instruction_count) and only then does the instruction after 'WAIT N'    *)
(* run; robot and world are unchanged throughout.                          *)

\* the first run of a program that begins with WAIT n and goes on after it:
\* no wait is pending when the WAIT at index 0 is dispatched
BeginsWithWait(n) ==
    /\ extended
    /\ InRun
    /\ earlier = << >>
    /\ Len(tokens) >= 3
    /\ tokens[1] = tWAIT
    /\ tokens[2] = Num(n)

C35_WaitPauses ==
    \A n \in 0..MaxN :
        BeginsWithWait(n) =>
            \A i \in 1..Len(execution_history) :
                /\ i <= n + 1 =>
                      /\ execution_history[i].pc = 0
                      /\ execution_history[i].token = tWAIT
                      /\ execution_history[i].position = start_pos
                      /\ execution_history[i].direction = start_dir
                /\ i = n + 2 =>
                      /\ execution_history[i].pc = 2
                      /\ execution_history[i].position = start_pos
                      /\ execution_history[i].direction = start_dir

-----------------------------------------------------------------------------
(* C37: all execution state held by an ExtendedVaultInterpreter, including *)
(* wait_counter, marks and saved_states, is fresh at the start of each     *)
(* run(): running the same extended program (using WAIT, MARK/GOTO or      *)
(* SAVE/LOAD, no RTURN) twice on equal fresh runners yields the same final *)
(* robot state and the same instruction_count both times.                  *)

\* run() has just been called: the steps that lead to "running"
RunCalled == status' = "running" /\ status # "running"

C37_ExtendedRunStartsFresh ==
    /\ [][ (extended /\ RunCalled)
             => /\ wait_counter' = 0
                /\ marks' = << >>
                /\ saved_states' = << >> ]_vars
    /\ []( (extended /\ ~HasRturn /\ Terminated /\ earlier # << >>)
             => /\ runner = earlier[1].runner
                /\ instruction_count = earlier[1].instruction_count )

-----------------------------------------------------------------------------
(* C39: in ExtendedVaultInterpreter, GOTO moves the robot to the most      *)
(* recently marked position: after MARK at cell m and any displacement,    *)
(* repeatedly dispatching GOTO in a world with no wall between the robot   *)
(* and m eventually brings the robot to m, for every relative offset       *)
(* (including offsets that differ in both x and y) and every heading; once *)
(* at m, GOTO changes nothing; GOTO with no mark is a no-op.               *)

\* a run of MARK, a displacement and GotoRounds GOTOs on the open field has
\* dispatched every token.  The displacements end at most one cell away on
\* each axis, which takes no more than two turns and a move, one turn and a
\* move: fewer than GotoRounds dispatches
GotoProgramDone ==
    /\ extended
    /\ earlier = << >>
    /\ tokens \in GotoPrograms
    /\ runner.original_world = FieldWorld
    /\ status = "returned"
    /\ pc = Len(tokens)

\* the robot as the program sees it
Robot(r) ==
    << r.x, r.y, r.direction, r.has_key, r.door_opened, r.world >>

C39_GotoReachesMark ==
    /\ []( GotoProgramDone => <<runner.x, runner.y>> = marks[Len(marks)] )
    /\ [][ (extended /\ Dispatching /\ token = tGOTO)
             => /\ marks' = marks
                /\ (marks = << >> \/ <<runner.x, runner.y>> = marks[Len(marks)])
                      => Robot(runner') = Robot(runner) ]_vars

-----------------------------------------------------------------------------
(* C38: the GUI step executor performs, per step, exactly the state        *)
(* transition of one iteration of VaultInterpreter.run (budget check,      *)
(* instruction_count+1, dispatch, pc+1, escape check): stepping a program  *)
(* with execute_next_step until it stops reaches the same final position,  *)
(* has_key, door_opened, escaped, escape_via and instruction_count as      *)
(* run() on an equal runner.                                               *)

\* what the claim compares of the end of a step execution or of a run
Final(o) ==
    << o.runner.x, o.runner.y, o.runner.has_key, o.runner.door_opened,
       o.runner.escaped, o.runner.escape_via, o.instruction_count >>

\* the program was stepped to its end without an error, and run() on an
\* equal runner has returned
SteppedThenRun ==
    /\ Len(earlier) = 1
    /\ earlier[1].status = "stepped"
    /\ earlier[1].error = ""
    /\ status = "returned"
    /\ ~HasRturn

C38_StepExecutorMatchesRun ==
    /\ [][ (status = "stepping" /\ status' = "stepping")
             => /\ instruction_count' = instruction_count + 1
                /\ runner' = check_escape(runner') ]_vars
    /\ []( SteppedThenRun => Final(Outcome) = Final(earlier[1]) )

====
